---- MODULE Spec2Model ----
(***************************************************************************)
(* A state-machine model of the session and streaming layer of the         *)
(* DXtrade Python SDK:                                                     *)
(*   - SessionHandler (auth.py): login, token expiry, concurrent callers   *)
(*   - RateLimiter / IdempotencyManager (utils.py)                         *)
(*   - DXtradeHTTPClient.request (http.py)                                 *)
(*   - DXtradePushClient (push.py): connect, background tasks, reconnect   *)
(*   - DXTradeStreamManager (websocket/stream_manager.py)                  *)
(* Each component has its own specification (SpecAuth, SpecRate, SpecHttp, *)
(* SpecPush, SpecStream); the variables of the other components keep their *)
(* initial values.  asyncio is cooperative: a task runs atomically from    *)
(* one await to the next, so every action below is the code between two    *)
(* suspension points of one task.                                          *)
(***************************************************************************)
EXTENDS Integers, Sequences, FiniteSets, TLC

VARIABLES
    \* wall clock, seconds (time.time())
    now,
    \* ---- SessionHandler (auth.py) ----
    session_token, token_expires_at, last_login,
    apc, a_hdr, a_issued, a_callAt, a_okSeen,
    loginPosts, lastOkLogin,
    lo_pc, lo_hdr, lo_outcome, lo_result, lo_relogged,
    \* ---- RateLimiter (utils.py) ----
    rl_rate, rl_burst, rl_tokens, rl_last_update, rl_now,
    rl_result, rl_kind, rl_count, rl_rejAt,
    \* ---- DXtradeHTTPClient (http.py) + IdempotencyManager (utils.py) ----
    h_limited, h_cache, h_ts, h_uuid, h_sendSeq,
    hpc, h_key, h_rid, h_attempt, h_sends, h_net, h_sleeps, h_result, h_callAt,
    h_exp, g_okAt, g_okResp, h_hist, h_offset, h_date, g_failed,
    \* ---- DXtradePushClient (push.py) ----
    p_connected, p_ws, p_reconnect_attempts, p_last_heartbeat,
    p_should_reconnect, p_shutdown, p_handle, p_processing, p_queue,
    p_subs, p_filter, p_nextSub,
    sock_state, sock_log,
    ppc, r_sock, rc_attempt, rs_pos,
    sock_by, p_rcAttempts, p_lateAttempt, p_replayed, p_env,
    p_clock, p_hb_at, p_msg_at, p_dispatched, r_frame,
    \* ---- DXTradeStreamManager (websocket/stream_manager.py) ----
    sm_ws, sm_connected, sm_attempts, sm_timers, sm_ping_stats,
    ss_state, ss_type, hd_pc, rc_pc,
    cpc, sm_pending, sm_all_connected, sm_last, sm_env,
    sm_subscribed, sm_is_ready, sm_results, sm_on_error,
    sm_is_destroyed, dt_pc, ss_sent, sm_wanted, u_is_connected,
    \* ---- DXTradeTransport (transport.py) ----
    t_session_token, t_websockets, t_subscriptions, t_ws_tasks, t_ping_stats,
    tt_pc, tt_channel, t_frames, tt_token, tt_missed, t_reply,
    t_logins, tr_pc, tr_hdr, tr_sent, tr_resp, tr_relogins, tr_new, tr_result,
    \* ---- RetryConfig (utils.py) ----
    rt_base, rt_attempt, rt_prev, rt_cur, rt_delay

authVars == <<session_token, token_expires_at, last_login, apc, a_hdr,
              a_issued, a_callAt, a_okSeen, loginPosts, lastOkLogin,
              lo_pc, lo_hdr, lo_outcome, lo_result, lo_relogged>>
rateVars == <<rl_rate, rl_burst, rl_tokens, rl_last_update, rl_now>>
rateGhost == <<rl_result, rl_kind, rl_count, rl_rejAt>>
httpVars == <<h_limited, h_cache, h_ts, h_uuid, h_sendSeq, hpc, h_key, h_rid,
              h_attempt, h_sends, h_net, h_sleeps, h_result, h_callAt, h_exp,
              g_okAt, g_okResp, h_hist, h_offset, h_date, g_failed>>

\* the inbound path of the push client: the clock, the times of the last
\* heartbeat handled and the last frame received, the last event handed to
\* the handlers, and the frame a receive loop is putting on the queue
\* the event handlers of one event type (push.py:388-558,
\* stream_manager.py:138-164): the class, the list registered for the event,
\* the list the running dispatch iterates and whether it is the registered
\* list itself, the iterator's index, the list as it was when the dispatch
\* started, and the calls each handler has received
VARIABLES d_class, d_registry, d_iter, d_shared, d_pos, d_start, d_calls, d_pc

pinVars == <<p_clock, p_hb_at, p_msg_at, p_dispatched, r_frame>>
pushVars == <<p_connected, p_ws, p_reconnect_attempts, p_last_heartbeat,
              p_should_reconnect, p_shutdown, p_handle, p_processing, p_queue,
              p_subs, p_filter, p_nextSub, sock_state, sock_log, ppc, r_sock,
              rc_attempt, rs_pos, sock_by, p_rcAttempts, p_lateAttempt,
              p_replayed, p_env, pinVars>>
restVars == <<now, authVars, rateVars, rateGhost, httpVars>>

streamVars == <<sm_ws, sm_connected, sm_attempts, sm_timers, sm_ping_stats,
                ss_state, ss_type, hd_pc, rc_pc, cpc, sm_pending,
                sm_all_connected, sm_last, sm_env, sm_subscribed,
                sm_is_ready, sm_results, sm_on_error, sm_is_destroyed,
                dt_pc, ss_sent, sm_wanted, u_is_connected>>
treqVars == <<t_logins, tr_pc, tr_hdr, tr_sent, tr_resp, tr_relogins, tr_new,
              tr_result>>
transportVars == <<t_session_token, t_websockets, t_subscriptions, t_ws_tasks,
                   t_ping_stats, tt_pc, tt_channel, t_frames, tt_token,
                   tt_missed, t_reply, treqVars>>
dispatchVars == <<d_class, d_registry, d_iter, d_shared, d_pos, d_start,
                  d_calls, d_pc>>
retryVars == <<rt_base, rt_attempt, rt_prev, rt_cur, rt_delay, dispatchVars>>
vars == <<restVars, pushVars, streamVars, transportVars, retryVars>>

\* Python's None (the times and tokens of the model are non-negative)
None == 0 - 1

\* Python truthiness of an Optional[float] / Optional[str]: None, 0.0 and ""
\* are false
Falsy(x) == x = None \/ x = 0

Min(a, b) == IF a <= b THEN a ELSE b

\* the jumps of the wall clock, in seconds: half the 3300 s of a session for
\* the session model, half the TTL for the HTTP model, so that the very
\* instant of expiry is one of the instants reached
TimeSteps == {1650}
HttpTimeSteps == {1800}

\* the wall clock at construction (an epoch time is never 0)
StartTime == 300

(***************************************************************************)
(* SessionHandler                                                          *)
(***************************************************************************)
\* bounds of the session model
NumCallers == 2
MaxLogins == 3
MaxTime == 5250

Callers == 1..NumCallers

\* auth.py:260  time.time() + 3600 - 300
SessionLifetime == 3600
ExpiryBuffer == 300
\* auth.py:276  (time.time() - self._last_login) > 3600
MaxSessionAge == 3600

_is_token_expired ==
    IF Falsy(token_expires_at) \/ Falsy(last_login) THEN TRUE
    ELSE IF (now - last_login) > MaxSessionAge THEN TRUE
    ELSE now >= token_expires_at

\* the test of authenticate, auth.py:219
NeedsLogin == Falsy(session_token) \/ _is_token_expired

AuthInit ==
    /\ session_token = None
    /\ token_expires_at = None
    /\ last_login = None
    /\ apc = [c \in Callers |-> "idle"]
    /\ a_hdr = [c \in Callers |-> None]
    /\ a_issued = [c \in Callers |-> 0]
    /\ a_callAt = [c \in Callers |-> None]
    /\ a_okSeen = [c \in Callers |-> None]
    /\ loginPosts = 0
    /\ lastOkLogin = None
    /\ lo_pc = "idle"
    /\ lo_hdr = None
    /\ lo_outcome = "none"
    /\ lo_result = "none"
    /\ lo_relogged = FALSE

\* authenticate up to its first await: either the token is reused and the
\* request decorated (no suspension at all), or POST /login is issued
authenticate(c) ==
    /\ apc[c] = "idle"
    /\ a_callAt' = [a_callAt EXCEPT ![c] = now]
    /\ a_okSeen' = [a_okSeen EXCEPT ![c] = lastOkLogin]
    /\ IF NeedsLogin
       THEN /\ loginPosts < MaxLogins
            /\ loginPosts' = loginPosts + 1
            /\ apc' = [apc EXCEPT ![c] = "login_wait"]
            /\ a_issued' = [a_issued EXCEPT ![c] = 1]
            /\ a_hdr' = [a_hdr EXCEPT ![c] = None]
       ELSE /\ apc' = [apc EXCEPT ![c] = "done"]
            /\ a_issued' = [a_issued EXCEPT ![c] = 0]
            /\ a_hdr' = [a_hdr EXCEPT ![c] = session_token]
            /\ UNCHANGED loginPosts
    /\ UNCHANGED <<now, session_token, token_expires_at, last_login, lastOkLogin>>
    /\ UNCHANGED <<lo_pc, lo_hdr, lo_outcome, lo_result, lo_relogged>>

\* _refresh_session_token after the await of client.post: the three ways the
\* login can end.  The token of the k-th login is k.
_refresh_session_token(c, outcome) ==
    /\ apc[c] = "login_wait"
    /\ CASE outcome = "ok" ->
              /\ session_token' = loginPosts
              /\ token_expires_at' = now + SessionLifetime - ExpiryBuffer
              /\ last_login' = now
              /\ lastOkLogin' = now
              /\ apc' = [apc EXCEPT ![c] = "done"]
              /\ a_hdr' = [a_hdr EXCEPT ![c] = loginPosts]
         [] outcome = "no_token" ->
              \* line 252 stores data.get("sessionToken") before the test
              /\ session_token' = None
              /\ apc' = [apc EXCEPT ![c] = "failed"]
              /\ UNCHANGED <<token_expires_at, last_login, lastOkLogin, a_hdr>>
         [] outcome = "http_error" ->
              /\ apc' = [apc EXCEPT ![c] = "failed"]
              /\ UNCHANGED <<session_token, token_expires_at, last_login,
                             lastOkLogin, a_hdr>>
    /\ lo_relogged' = (lo_relogged \/ outcome = "ok")
    /\ UNCHANGED <<now, a_issued, a_callAt, a_okSeen, loginPosts>>
    /\ UNCHANGED <<lo_pc, lo_hdr, lo_outcome, lo_result>>

\* the caller's request ends; the caller may issue another one
AuthReturn(c) ==
    /\ apc[c] \in {"done", "failed"}
    /\ apc' = [apc EXCEPT ![c] = "idle"]
    /\ a_hdr' = [a_hdr EXCEPT ![c] = None]
    /\ a_issued' = [a_issued EXCEPT ![c] = 0]
    /\ a_callAt' = [a_callAt EXCEPT ![c] = None]
    /\ a_okSeen' = [a_okSeen EXCEPT ![c] = None]
    /\ UNCHANGED <<now, session_token, token_expires_at, last_login,
                   loginPosts, lastOkLogin>>
    /\ UNCHANGED <<lo_pc, lo_hdr, lo_outcome, lo_result, lo_relogged>>

\* the ways the POST /logout of logout() can end: with a response of any
\* status (raise_for_status is not called), with an httpx.HTTPError (a
\* connect, read or timeout error), or with the cancellation of the caller
LogoutOutcomes == {"response", "HTTPError", "CancelledError"}

\* a logout() that lets the error of the POST through, to test C25
LogoutSwallows_Nothing(outcome) == outcome = "response"

\* logout(), lines 305-307: "except httpx.HTTPError: pass"
LogoutSwallows(outcome) == outcome \in {"response", "HTTPError"}

\* logout(), lines 295-304: without a token it returns at once; otherwise
\* POST /logout is issued with the held token
logout ==
    /\ lo_pc = "idle"
    /\ IF Falsy(session_token)
       THEN /\ lo_pc' = "done"
            /\ lo_result' = "returned"
            /\ UNCHANGED lo_hdr
       ELSE /\ lo_pc' = "posting"
            /\ lo_hdr' = session_token
            /\ UNCHANGED lo_result
    /\ lo_relogged' = FALSE
    /\ UNCHANGED <<now, session_token, token_expires_at, last_login, apc,
                   a_hdr, a_issued, a_callAt, a_okSeen, loginPosts,
                   lastOkLogin, lo_outcome>>

\* logout(), lines 305-311: the POST ends; the finally block clears the
\* session state whatever the outcome
LogoutEnd(outcome) ==
    /\ lo_pc = "posting"
    /\ lo_pc' = "done"
    /\ lo_outcome' = outcome
    /\ lo_result' = IF LogoutSwallows(outcome) THEN "returned" ELSE outcome
    /\ session_token' = None
    /\ token_expires_at' = None
    /\ last_login' = None
    /\ lo_relogged' = FALSE
    /\ UNCHANGED <<now, apc, a_hdr, a_issued, a_callAt, a_okSeen, loginPosts,
                   lastOkLogin, lo_hdr>>

AuthTick ==
    /\ \E d \in TimeSteps :
          /\ now + d <= MaxTime
          /\ now' = now + d
    /\ UNCHANGED authVars

(***************************************************************************)
(* RateLimiter: time.monotonic() is counted in ticks, tokens in 1/Ticks-   *)
(* PerSecond of a token, so that elapsed * rate is exact.                  *)
(***************************************************************************)
TicksPerSecond == 4
MaxBurst == 2
MaxRate == 2
MaxMono == 8

\* the bucket after the refill of acquire(), utils.py:60-63
Refilled(tokens, last, mono, rate, burst) ==
    Min(burst * TicksPerSecond, tokens + (mono - last) * rate)

\* a bucket that asks for more than the tokens requested
HasToken_Strict(level) == level > TicksPerSecond

\* utils.py:66  if self.tokens >= tokens  (one token asked)
HasToken(level) == level >= TicksPerSecond

\* the three steps of acquire() on the current bucket
Level == Refilled(rl_tokens, rl_last_update, rl_now, rl_rate, rl_burst)
AcquireOk == HasToken(Level)
AcquireTokens == IF AcquireOk THEN Level - TicksPerSecond ELSE Level

\* RateLimiter.__init__, utils.py:33-44: a full bucket
RateInit ==
    /\ rl_tokens = rl_burst * TicksPerSecond
    /\ rl_last_update = 0
    /\ rl_now = 0
    /\ rl_result = "none"
    /\ rl_kind = "none"
    /\ rl_count = 0
    /\ rl_rejAt = None

\* RateLimiter.acquire(1), the whole body under the lock.  rl_kind says
\* which acquire this is: the rl_count-th of a burst that started on a full
\* bucket and is made at one instant ("burst"), the first acquire made at
\* least 1/rate seconds after the rejection that ended such a burst
\* ("after"), one made sooner than that ("early"), or any other.
acquire ==
    LET full == Level = rl_burst * TicksPerSecond
        inBurst == rl_kind = "burst" /\ rl_last_update = rl_now
                   /\ rl_count <= rl_burst
        ok == AcquireOk
    IN  /\ rl_last_update' = rl_now
        /\ rl_tokens' = AcquireTokens
        /\ rl_result' = IF ok THEN "ok" ELSE "rejected"
        /\ IF inBurst
           THEN /\ rl_kind' = "burst"
                /\ rl_count' = rl_count + 1
                /\ rl_rejAt' = IF rl_count = rl_burst THEN rl_now ELSE None
           ELSE IF rl_rejAt # None
           THEN /\ rl_kind' = IF (rl_now - rl_rejAt) * rl_rate >= TicksPerSecond
                              THEN "after" ELSE "early"
                /\ rl_count' = 0
                /\ rl_rejAt' = IF ok THEN None ELSE rl_rejAt
           ELSE IF full
           THEN /\ rl_kind' = "burst"
                /\ rl_count' = 1
                /\ rl_rejAt' = None
           ELSE /\ rl_kind' = "other"
                /\ rl_count' = 0
                /\ rl_rejAt' = None
        /\ UNCHANGED <<rl_rate, rl_burst, rl_now>>

RateAcquire ==
    /\ acquire
    /\ UNCHANGED <<now, authVars, httpVars>>

RateTick ==
    /\ rl_now < MaxMono
    /\ rl_now' = rl_now + 1
    /\ UNCHANGED <<rl_rate, rl_burst, rl_tokens, rl_last_update, rateGhost>>
    /\ UNCHANGED <<now, authVars, httpVars>>

(***************************************************************************)
(* IdempotencyManager and DXtradeHTTPClient.request                        *)
(***************************************************************************)
NumReqs == 2
NumKeys == 1
MaxUuid == 2
MaxSends == 3
MaxHttpTime == 3900

\* HTTPConfig.max_retries of the modelled client
HttpMaxRetries == 1

\* utils.py:87  self._ttl = 3600
IdempotencyTtl == 3600

Reqs == 1..NumReqs
\* keys the caller passes; the keys generate_key makes come after them; the
\* empty string is 0
ExplicitKeys == 1..NumKeys
KeySpace == 1..(NumKeys + MaxUuid)
Methods == {"GET", "POST"}
Statuses == {200, 404, 429, 500}
TransportErrors == {"TimeoutException", "ConnectError"}

NoResp == [kind |-> "none"]
NoExp == [at |-> None, resp |-> NoResp]
Response(st, id) == [kind |-> "response", status |-> st, id |-> id]
Raised(exc, st) == [kind |-> exc, status |-> st]
\* how one attempt ended: the exception of the send or of authenticate, or
\* the status of the response
Outcome(exc, st) == [exc |-> exc, status |-> st]

\* IdempotencyManager.generate_key: "" for GET, else a fresh uuid4
generate_key(method) == IF method = "GET" THEN 0 ELSE NumKeys + h_uuid + 1

\* IdempotencyManager.get_cached_response: the entry, if present and young
CacheHit(key) ==
    /\ key # 0
    /\ h_cache[key] # NoResp
    /\ now - h_ts[key] < IdempotencyTtl

\* ... and the removal of an entry found expired
CacheAfterLookup(key) ==
    IF key # 0 /\ h_cache[key] # NoResp /\ ~(now - h_ts[key] < IdempotencyTtl)
    THEN [h_cache EXCEPT ![key] = NoResp]
    ELSE h_cache

TsAfterLookup(key) ==
    IF key # 0 /\ h_cache[key] # NoResp /\ ~(now - h_ts[key] < IdempotencyTtl)
    THEN [h_ts EXCEPT ![key] = None]
    ELSE h_ts

is_retryable_error_NoTimeout(exc) == exc \in {"ConnectError"}

\* utils.py:315  is_retryable_error, on the exceptions request() can see
is_retryable_error(exc) == exc \in {"TimeoutException", "ConnectError"}

\* http.py:231-241  what request() raises after the loop
FinalError(exc, st) ==
    IF exc = "TimeoutException" THEN Raised("DXtradeTimeoutError", None)
    ELSE Raised("DXtradeHTTPError", 0)

\* the exception of one attempt that got a response: handle_rate_limit_response
\* (http.py:187) and _handle_http_error (http.py:199)
StatusException(st) ==
    IF st = 429 THEN "DXtradeRateLimitError"
    ELSE IF st >= 400 THEN "DXtradeHTTPError"
    ELSE "none"

HttpInit ==
    /\ h_cache = [k \in KeySpace |-> NoResp]
    /\ h_ts = [k \in KeySpace |-> None]
    /\ h_uuid = 0
    /\ h_sendSeq = 0
    /\ hpc = [r \in Reqs |-> "idle"]
    /\ h_key = [r \in Reqs |-> 0]
    /\ h_rid = [r \in Reqs |-> 0]
    /\ h_attempt = [r \in Reqs |-> 0]
    /\ h_sends = [r \in Reqs |-> 0]
    /\ h_net = [r \in Reqs |-> 0]
    /\ h_sleeps = [r \in Reqs |-> 0]
    /\ h_result = [r \in Reqs |-> NoResp]
    /\ h_callAt = [r \in Reqs |-> None]
    /\ h_exp = [r \in Reqs |-> NoExp]
    /\ g_okAt = [k \in KeySpace |-> None]
    /\ g_okResp = [k \in KeySpace |-> NoResp]
    /\ h_hist = [r \in Reqs |-> <<>>]
    /\ h_offset = "unset"
    /\ h_date = [r \in Reqs |-> "none"]
    /\ g_failed = [k \in KeySpace |-> FALSE]

\* http.py:206-207: the responses request() stores under its key
ShouldCache_AnyResponse(key, st) == key # 0

ShouldCache(key, st) == key # 0 /\ 200 <= st /\ st < 300

\* whether the last request with each key that ended was one that raised:
\* g_failed after a request with this key has returned or raised
EndedWith(key, raised) ==
    IF key = 0 THEN g_failed ELSE [g_failed EXCEPT ![key] = raised]

\* the caller awaits each request before it makes the next one
NoneInFlight == \A q \in Reqs : hpc[q] \in {"idle", "returned", "raised"}

\* request() from its call to the first await of the retry loop, http.py:124-162:
\* rate limiter, key, cache lookup
request(r, method, keyArg) ==
    LET key == IF keyArg # None THEN keyArg ELSE generate_key(method)
        limited == h_limited /\ ~AcquireOk
    IN  /\ hpc[r] = "idle"
        /\ NoneInFlight
        /\ (keyArg = None /\ method # "GET") => h_uuid < MaxUuid
        /\ h_callAt' = [h_callAt EXCEPT ![r] = now]
        /\ IF h_limited
           THEN /\ rl_tokens' = AcquireTokens
                /\ rl_last_update' = rl_now
           ELSE UNCHANGED <<rl_tokens, rl_last_update>>
        /\ h_exp' = [h_exp EXCEPT ![r] =
                        IF key # 0 /\ g_okAt[key] # None
                        THEN [at |-> g_okAt[key], resp |-> g_okResp[key]]
                        ELSE NoExp]
        /\ IF limited
           THEN /\ hpc' = [hpc EXCEPT ![r] = "raised"]
                /\ h_result' = [h_result EXCEPT ![r] =
                                   Raised("DXtradeRateLimitError", None)]
                /\ UNCHANGED <<h_cache, h_ts, h_uuid, h_key>>
           ELSE /\ h_uuid' = IF keyArg = None /\ method # "GET"
                             THEN h_uuid + 1 ELSE h_uuid
                /\ h_key' = [h_key EXCEPT ![r] = key]
                /\ h_cache' = CacheAfterLookup(key)
                /\ h_ts' = TsAfterLookup(key)
                /\ IF CacheHit(key)
                   THEN /\ hpc' = [hpc EXCEPT ![r] = "returned"]
                        /\ h_result' = [h_result EXCEPT ![r] = h_cache[key]]
                   ELSE /\ hpc' = [hpc EXCEPT ![r] = "attempt"]
                        /\ h_result' = [h_result EXCEPT ![r] = NoResp]
        /\ h_attempt' = [h_attempt EXCEPT ![r] = 0]
        /\ h_sends' = [h_sends EXCEPT ![r] = 0]
        /\ h_net' = [h_net EXCEPT ![r] = 0]
        /\ h_sleeps' = [h_sleeps EXCEPT ![r] = 0]
        /\ h_hist' = [h_hist EXCEPT ![r] = <<>>]
        /\ UNCHANGED <<now, h_limited, h_sendSeq, h_rid, g_okAt, g_okResp,
                       rl_rate, rl_burst, rl_now, rateGhost, authVars>>
        /\ g_failed' = IF ~limited /\ CacheHit(key) THEN EndedWith(key, FALSE)
                       ELSE g_failed
    /\ UNCHANGED <<h_offset, h_date>>

\* one turn of the retry loop up to the await of send, http.py:166-184.
\* auth_handler.authenticate either decorates the request or raises; the only
\* handler that raises is SessionHandler, after its POST /login (auth.py:223,
\* 255, 264).  h_sends counts the sends of the request itself, h_net every
\* network call made for it.
HttpAttempt(r, authOk) ==
    /\ hpc[r] = "attempt"
    /\ IF authOk
       THEN /\ h_sendSeq < MaxSends
            /\ h_sendSeq' = h_sendSeq + 1
            /\ h_rid' = [h_rid EXCEPT ![r] = h_sendSeq + 1]
            /\ h_sends' = [h_sends EXCEPT ![r] = @ + 1]
            /\ h_net' = [h_net EXCEPT ![r] = @ + 1]
            /\ hpc' = [hpc EXCEPT ![r] = "sending"]
            /\ UNCHANGED h_result
       ELSE \* DXtradeAuthenticationError: not retryable, http.py:218
            /\ hpc' = [hpc EXCEPT ![r] = "raised"]
            /\ h_result' = [h_result EXCEPT ![r] =
                               FinalError("DXtradeAuthenticationError", None)]
            /\ h_net' = [h_net EXCEPT ![r] = @ + 1]
            /\ UNCHANGED <<h_sendSeq, h_rid, h_sends>>
    /\ h_hist' = [h_hist EXCEPT ![r] =
                    IF authOk THEN @ ELSE Append(@, Outcome("DXtradeAuthenticationError", 0))]
    /\ UNCHANGED <<now, h_limited, h_cache, h_ts, h_uuid, h_key, h_attempt,
                   h_sleeps, h_callAt, h_exp, g_okAt, g_okResp,
                   rateVars, rateGhost, authVars>>
    /\ g_failed' = IF authOk THEN g_failed ELSE EndedWith(h_key[r], TRUE)
    /\ UNCHANGED <<h_offset, h_date>>

\* the Date header of a response: none, one that cannot be parsed, one
\* within ClockDriftDetector.threshold (30 s) of the local clock, and one
\* further from it
DateHeaders == {"absent", "unparsable", "within", "beyond"}

\* ClockDriftDetector.check_drift, utils.py:178-192, for the offset off
check_drift(off) == IF off = "beyond" THEN "DXtradeClockDriftError" ELSE "none"

\* http.py:190-196: update_server_time and check_drift run inside a try
\* whose "except Exception" logs and goes on; DXtradeClockDriftError is an
\* Exception (errors.py:265), so the block raises nothing to request()
DateBlockRaises(off) ==
    IF check_drift(off) = "DXtradeClockDriftError" THEN "none"
    ELSE check_drift(off)

\* ClockDriftDetector._server_time_offset after the block: set from a Date
\* header that parses
OffsetAfter(dr) == IF dr \in {"within", "beyond"} THEN dr ELSE h_offset

\* the send returned a response with status st and Date header dr,
\* http.py:186-212
HttpStatus(r, st, dr) ==
    LET off == OffsetAfter(dr)
        exc == IF st # 429 /\ DateBlockRaises(off) # "none"
               THEN DateBlockRaises(off) ELSE StatusException(st)
        resp == Response(st, h_rid[r])
        store == ShouldCache(h_key[r], st)
    IN  /\ hpc[r] = "sending"
        /\ IF exc # "none"
           THEN \* caught at http.py:214; never retryable, so the loop breaks
                /\ hpc' = [hpc EXCEPT ![r] = "raised"]
                /\ h_result' = [h_result EXCEPT ![r] = FinalError(exc, st)]
                /\ UNCHANGED <<h_cache, h_ts, g_okAt, g_okResp>>
           ELSE /\ hpc' = [hpc EXCEPT ![r] = "returned"]
                /\ h_result' = [h_result EXCEPT ![r] = resp]
                /\ h_cache' = IF store THEN [h_cache EXCEPT ![h_key[r]] = resp]
                              ELSE h_cache
                /\ h_ts' = IF store THEN [h_ts EXCEPT ![h_key[r]] = now]
                           ELSE h_ts
                /\ g_okAt' = IF store THEN [g_okAt EXCEPT ![h_key[r]] = now]
                             ELSE g_okAt
                /\ g_okResp' = IF store THEN [g_okResp EXCEPT ![h_key[r]] = resp]
                               ELSE g_okResp
        /\ h_hist' = [h_hist EXCEPT ![r] = Append(@, Outcome("none", st))]
        /\ h_offset' = IF st # 429 THEN off ELSE h_offset
        /\ h_date' = [h_date EXCEPT ![r] = dr]
        /\ g_failed' = EndedWith(h_key[r], exc # "none")
        /\ UNCHANGED <<now, h_limited, h_uuid, h_sendSeq, h_key, h_rid,
                       h_attempt, h_sends, h_net, h_sleeps, h_callAt, h_exp,
                       rateVars, rateGhost, authVars>>

\* the send raised a transport exception, http.py:214-229
HttpTransportError(r, exc) ==
    /\ hpc[r] = "sending"
    /\ IF h_attempt[r] >= HttpMaxRetries \/ ~is_retryable_error(exc)
       THEN /\ hpc' = [hpc EXCEPT ![r] = "raised"]
            /\ h_result' = [h_result EXCEPT ![r] = FinalError(exc, None)]
            /\ UNCHANGED h_sleeps
       ELSE /\ hpc' = [hpc EXCEPT ![r] = "backoff"]
            /\ h_sleeps' = [h_sleeps EXCEPT ![r] = @ + 1]
            /\ UNCHANGED h_result
    /\ h_hist' = [h_hist EXCEPT ![r] = Append(@, Outcome(exc, 0))]
    /\ UNCHANGED <<now, h_limited, h_cache, h_ts, h_uuid, h_sendSeq, h_key,
                   h_rid, h_attempt, h_sends, h_net, h_callAt, h_exp, g_okAt,
                   g_okResp, rateVars, rateGhost, authVars>>
    /\ g_failed' = IF h_attempt[r] >= HttpMaxRetries \/ ~is_retryable_error(exc)
                   THEN EndedWith(h_key[r], TRUE) ELSE g_failed
    /\ UNCHANGED <<h_offset, h_date>>

\* asyncio.sleep(delay) is over: next turn of the loop
HttpWake(r) ==
    /\ hpc[r] = "backoff"
    /\ hpc' = [hpc EXCEPT ![r] = "attempt"]
    /\ h_attempt' = [h_attempt EXCEPT ![r] = @ + 1]
    /\ UNCHANGED <<now, h_limited, h_cache, h_ts, h_uuid, h_sendSeq, h_key,
                   h_rid, h_sends, h_net, h_sleeps, h_result, h_callAt, h_exp,
                   g_okAt, g_okResp, h_hist, rateVars, rateGhost, authVars>>
    /\ UNCHANGED <<h_offset, h_date, g_failed>>

\* the caller has taken the result; it may call request() again
HttpDone(r) ==
    /\ hpc[r] \in {"returned", "raised"}
    /\ hpc' = [hpc EXCEPT ![r] = "idle"]
    /\ h_result' = [h_result EXCEPT ![r] = NoResp]
    /\ h_exp' = [h_exp EXCEPT ![r] = NoExp]
    /\ h_callAt' = [h_callAt EXCEPT ![r] = None]
    /\ h_sends' = [h_sends EXCEPT ![r] = 0]
    /\ h_net' = [h_net EXCEPT ![r] = 0]
    /\ h_sleeps' = [h_sleeps EXCEPT ![r] = 0]
    /\ h_attempt' = [h_attempt EXCEPT ![r] = 0]
    /\ h_key' = [h_key EXCEPT ![r] = 0]
    /\ h_rid' = [h_rid EXCEPT ![r] = 0]
    /\ h_hist' = [h_hist EXCEPT ![r] = <<>>]
    /\ UNCHANGED <<now, h_limited, h_cache, h_ts, h_uuid, h_sendSeq,
                   g_okAt, g_okResp, rateVars, rateGhost, authVars>>
    /\ h_date' = [h_date EXCEPT ![r] = "none"]
    /\ UNCHANGED <<h_offset, g_failed>>

\* both clocks advance
HttpTick ==
    /\ \E d \in HttpTimeSteps :
          /\ now + d <= MaxHttpTime
          /\ now' = now + d
          /\ rl_now' = rl_now + d * TicksPerSecond
    /\ UNCHANGED <<rl_rate, rl_burst, rl_tokens, rl_last_update, rateGhost,
                   httpVars, authVars>>
    /\ UNCHANGED <<h_offset, h_date, g_failed>>

(***************************************************************************)
(* DXtradePushClient (push.py), constructed without an auth handler.       *)
(* Threads of control: the caller of the public API (User) and, for every  *)
(* successful connect(), the tasks _start_background_tasks creates: the    *)
(* receive loop, the heartbeat sender, the connection monitor and the      *)
(* queue processor.  The tasks created by the connect() that opened        *)
(* socket g are <<"recv", g>>, <<"hb", g>>, <<"mon", g>>, <<"proc", g>>.   *)
(* _handle_reconnect runs inside the receive loop or the monitor that      *)
(* detected the outage.  A task made by create_task runs up to its first   *)
(* await as soon as its creator suspends, before any other event is        *)
(* delivered (the ready queue of the event loop is first in, first out).   *)
(* The caller makes one API call at a time, calls connect() until it has   *)
(* succeeded once, makes no subscribe/unsubscribe call while a connect()   *)
(* or a reconnect is under way, and makes no call after disconnect().      *)
(* The locals of a thread are reset when it ends.                          *)
(* SpecPush is the client with a caller that subscribes and disconnects    *)
(* and a server that sends a frame only while the queue has room;          *)
(* SpecPushInbound is the client whose caller only connects, with a        *)
(* server that sends frames of every type at any pace while time passes.   *)
(***************************************************************************)
\* bounds of the push model: sockets the server accepts, subscriptions the
\* caller creates, frames waiting in the inbound queue
MaxSocks == 3
MaxSubs == 2
MaxQueue == 1
\* config.max_retries, which bounds one _handle_reconnect run (models.py:439)
PushMaxRetries == 2
\* the outages of one run: sockets dropped by the network, and periods of
\* more than 3 x heartbeat_interval without a heartbeat frame
MaxDrops == 1
MaxLapses == 1

Socks == 1..MaxSocks
SubIds == 1..MaxSubs
\* the symbol filter of subscribe_prices: the caller asks for a different
\* symbol in each call
Filters == {"EURUSD", "GBPUSD"}
SymbolOf(i) == IF i = 1 THEN "EURUSD" ELSE "GBPUSD"
\* the "type" of an inbound frame
FrameTypes == {"heartbeat", "price"}
\* the types _handle_message tests for before it parses an event
ControlTypes == {"heartbeat", "subscription_ack", "error"}
InboundTypes == FrameTypes \cup ControlTypes
\* the monitor's limit, in units of config.heartbeat_interval (line 450), and
\* the length of a run in the same units
HeartbeatTimeout == 3
MaxPushClock == 5

User == <<"user", 0>>
RecvT(g) == <<"recv", g>>
HbT(g) == <<"hb", g>>
MonT(g) == <<"mon", g>>
ProcT(g) == <<"proc", g>>
\* the tasks that can run _handle_reconnect, and the threads that can run
\* connect()
Reconnectors == {<<k, g>> : k \in {"recv", "mon"}, g \in Socks}
ConnThreads == {User} \cup Reconnectors
Tasks == {<<k, g>> : k \in {"recv", "hb", "mon", "proc"}, g \in Socks}
Threads == {User} \cup Tasks

\* the subscribe messages a socket can carry: (subscription_id, symbol)
SubMsgs == SubIds \X Filters

PushInit ==
    /\ p_connected = FALSE
    /\ p_ws = None
    /\ p_reconnect_attempts = 0
    /\ p_last_heartbeat = "None"
    /\ p_should_reconnect = TRUE
    /\ p_shutdown = FALSE
    /\ p_handle = None
    /\ p_processing = FALSE
    /\ p_queue = <<>>
    /\ p_subs = [i \in SubIds |-> "none"]
    /\ p_filter = [i \in SubIds |-> "EURUSD"]
    /\ p_nextSub = 1
    /\ sock_state = [s \in Socks |-> "unused"]
    /\ sock_log = [s \in Socks |-> [m \in SubMsgs |-> 0]]
    /\ ppc = [x \in Threads |-> IF x = User THEN "idle" ELSE "none"]
    /\ r_sock = [g \in Socks |-> None]
    /\ rc_attempt = [t \in Reconnectors |-> 0]
    /\ rs_pos = [t \in ConnThreads |-> 0]
    /\ sock_by = [s \in Socks |-> "none"]
    /\ p_replayed = FALSE
    /\ p_rcAttempts = 0
    /\ p_lateAttempt = FALSE
    /\ p_env = [drops |-> 0, lapses |-> 0, again |-> FALSE]
    /\ p_clock = 0
    /\ p_hb_at = 0
    /\ p_msg_at = 0
    /\ p_dispatched = "none"
    /\ r_frame = [g \in Socks |-> "none"]

\* _send_message, lines 226-235: raises when there is no socket or the send
\* fails
SendOk == p_ws # None /\ sock_state[p_ws] = "open"

\* _send_subscription_message, lines 506-517: the message is built from the
\* registered Subscription
SubMsg(i) == <<i, p_filter[i]>>
Logged(log, i) == IF SendOk THEN [log EXCEPT ![p_ws][SubMsg(i)] = @ + 1] ELSE log

\* the entries _resubscribe still has to visit after position pos (the
\* registry is a dict, iterated in insertion order), lines 493-494
NextActive(pos) == {i \in SubIds : i > pos /\ p_subs[i] = "active"}
MinOf(S) == CHOOSE x \in S : \A y \in S : x <= y
ActiveMsgs == {SubMsg(i) : i \in {j \in SubIds : p_subs[j] = "active"}}

\* no connect() and no _handle_reconnect is under way
Quiet == \A t \in ConnThreads : ppc[t] \notin {"rc_sleep", "connecting", "resub"}

\* where a thread goes when its connect() returns: the caller gets control
\* back; _handle_reconnect returns (line 482) and its task ends (lines 294, 456)
AfterConnect(t) == IF t = User THEN "idle" ELSE "done"

\* connect(), lines 136-150: websockets.connect returns a new socket; the
\* state is set, the background tasks are created, and _resubscribe runs up
\* to its first send
ConnectOk(t) ==
    /\ ppc[t] = "connecting"
    /\ \E s \in Socks :
        /\ sock_state[s] = "unused"
        /\ \A q \in Socks : q < s => sock_state[q] # "unused"
        /\ LET first == NextActive(0)
               log == IF first = {} THEN sock_log
                      ELSE [sock_log EXCEPT ![s][SubMsg(MinOf(first))] = @ + 1]
           IN
            /\ sock_state' = [sock_state EXCEPT ![s] = "open"]
            /\ p_ws' = s
            /\ p_connected' = TRUE
            /\ p_reconnect_attempts' = 0
            /\ p_last_heartbeat' = "fresh"
            /\ p_handle' = s
            /\ ppc' = [x \in Threads |->
                  IF x = t THEN (IF first = {} THEN AfterConnect(t) ELSE "resub")
                  ELSE IF x = RecvT(s) THEN (IF p_shutdown THEN "done" ELSE "recv")
                  ELSE IF x \in {HbT(s), MonT(s)}
                       THEN (IF p_shutdown THEN "done" ELSE "sleep")
                  ELSE IF x = ProcT(s) /\ ~p_processing
                       THEN (IF p_shutdown THEN "done" ELSE "wait")
                  ELSE ppc[x]]
            /\ r_sock' = [r_sock EXCEPT ![s] = IF p_shutdown THEN None ELSE s]
            /\ p_processing' = (p_processing \/ ~p_shutdown)
            /\ sock_log' = log
            /\ rs_pos' = [rs_pos EXCEPT ![t] = IF first = {} THEN 0 ELSE MinOf(first)]
            /\ sock_by' = [sock_by EXCEPT ![s] = t[1]]
            /\ rc_attempt' = [x \in Reconnectors |-> IF x = t THEN 0 ELSE rc_attempt[x]]
            /\ p_rcAttempts' = 0
    /\ p_replayed' = IF NextActive(0) = {} /\ t # User THEN TRUE ELSE p_replayed
    /\ p_hb_at' = p_clock
    /\ UNCHANGED <<p_env, p_clock, p_msg_at, p_dispatched, r_frame>>
    /\ UNCHANGED <<p_should_reconnect, p_shutdown, p_queue, p_subs, p_filter,
                   p_nextSub, p_lateAttempt>>

\* connect(), lines 154-158, and for a reconnecting task _handle_reconnect,
\* lines 484-489: websockets.connect raised
ConnectFail(t) ==
    /\ ppc[t] = "connecting"
    /\ p_connected' = FALSE
    /\ p_ws' = None
    /\ IF t = User
       THEN /\ ppc' = [ppc EXCEPT ![t] = "idle"]
            /\ UNCHANGED <<p_reconnect_attempts, rc_attempt, p_should_reconnect>>
       ELSE /\ p_reconnect_attempts' = p_reconnect_attempts + 1
            /\ IF rc_attempt[t] + 1 < PushMaxRetries
               THEN /\ ppc' = [ppc EXCEPT ![t] = "rc_sleep"]
                    /\ rc_attempt' = [rc_attempt EXCEPT ![t] = @ + 1]
                    /\ UNCHANGED p_should_reconnect
               ELSE /\ ppc' = [ppc EXCEPT ![t] = "done"]
                    /\ rc_attempt' = [rc_attempt EXCEPT ![t] = 0]
                    /\ p_should_reconnect' = FALSE
    /\ UNCHANGED <<p_env, p_replayed, pinVars>>
    /\ UNCHANGED <<p_last_heartbeat, p_shutdown, p_handle, p_processing,
                   p_queue, p_subs, p_filter, p_nextSub, sock_state, sock_log,
                   r_sock, rs_pos, p_rcAttempts, p_lateAttempt, sock_by>>

\* _resubscribe, lines 493-498: the send of entry rs_pos has returned; the
\* loop goes on to the next active entry and sends it on the socket the
\* client holds now, or ends, and connect() returns
ResubStep(t) ==
    /\ ppc[t] = "resub"
    /\ LET rest == NextActive(rs_pos[t]) IN
        IF rest = {}
        THEN /\ ppc' = [ppc EXCEPT ![t] = AfterConnect(t)]
             /\ rs_pos' = [rs_pos EXCEPT ![t] = 0]
             /\ UNCHANGED sock_log
        ELSE /\ sock_log' = Logged(sock_log, MinOf(rest))
             /\ rs_pos' = [rs_pos EXCEPT ![t] = MinOf(rest)]
             /\ UNCHANGED ppc
    /\ p_replayed' = IF NextActive(rs_pos[t]) = {} /\ t # User THEN TRUE ELSE p_replayed
    /\ UNCHANGED <<p_env, pinVars>>
    /\ UNCHANGED <<p_connected, p_ws, p_reconnect_attempts, p_last_heartbeat,
                   p_should_reconnect, p_shutdown, p_handle, p_processing,
                   p_queue, p_subs, p_filter, p_nextSub, sock_state, r_sock,
                   rc_attempt, p_rcAttempts, p_lateAttempt, sock_by>>

\* the caller: connect(), lines 116-136, up to the await of websockets.connect
UserConnect ==
    /\ ppc[User] = "idle"
    /\ ~p_connected
    /\ p_last_heartbeat = "None"
    /\ ppc' = [ppc EXCEPT ![User] = "connecting"]
    /\ UNCHANGED <<p_env, p_replayed, pinVars>>
    /\ UNCHANGED <<p_connected, p_ws, p_reconnect_attempts, p_last_heartbeat,
                   p_should_reconnect, p_shutdown, p_handle, p_processing,
                   p_queue, p_subs, p_filter, p_nextSub, sock_state, sock_log,
                   r_sock, rc_attempt, rs_pos, p_rcAttempts, p_lateAttempt,
                   sock_by>>

\* the caller, after disconnect() has returned: connect() once more, lines
\* 116-136, up to the await of websockets.connect
ConnectAgain ==
    /\ ppc[User] = "disconnected"
    /\ ~p_connected
    /\ ~p_env.again
    /\ ppc' = [ppc EXCEPT ![User] = "connecting"]
    /\ p_env' = [p_env EXCEPT !.again = TRUE]
    /\ UNCHANGED <<p_replayed, pinVars>>
    /\ UNCHANGED <<p_connected, p_ws, p_reconnect_attempts, p_last_heartbeat,
                   p_should_reconnect, p_shutdown, p_handle, p_processing,
                   p_queue, p_subs, p_filter, p_nextSub, sock_state, sock_log,
                   r_sock, rc_attempt, rs_pos, p_rcAttempts, p_lateAttempt,
                   sock_by>>

\* subscribe_prices, lines 572-586: a new id is registered and, when
\* connected, the subscribe message is sent (a failed send raises to the
\* caller and leaves the entry registered)
subscribe_prices(f) ==
    /\ ppc[User] = "idle"
    /\ Quiet
    /\ p_nextSub <= MaxSubs
    /\ f = SymbolOf(p_nextSub)
    /\ p_subs' = [p_subs EXCEPT ![p_nextSub] = "active"]
    /\ p_filter' = [p_filter EXCEPT ![p_nextSub] = f]
    /\ p_nextSub' = p_nextSub + 1
    /\ sock_log' = IF p_connected /\ SendOk
                   THEN [sock_log EXCEPT ![p_ws][<<p_nextSub, f>>] = @ + 1]
                   ELSE sock_log
    /\ p_replayed' = FALSE
    /\ UNCHANGED <<p_env, pinVars>>
    /\ UNCHANGED <<p_connected, p_ws, p_reconnect_attempts, p_last_heartbeat,
                   p_should_reconnect, p_shutdown, p_handle, p_processing,
                   p_queue, sock_state, ppc, r_sock, rc_attempt, rs_pos,
                   p_rcAttempts, p_lateAttempt, sock_by>>

\* unsubscribe, lines 678-691: the entry is marked inactive, the unsubscribe
\* message is sent when connected, and the entry is deleted only if that
\* send did not raise
unsubscribe(i) ==
    /\ ppc[User] = "idle"
    /\ Quiet
    /\ p_subs[i] # "none"
    /\ p_subs' = [p_subs EXCEPT ![i] = IF p_connected /\ ~SendOk THEN "inactive"
                                       ELSE "none"]
    /\ p_replayed' = FALSE
    /\ UNCHANGED <<p_env, pinVars>>
    /\ UNCHANGED <<p_connected, p_ws, p_reconnect_attempts, p_last_heartbeat,
                   p_should_reconnect, p_shutdown, p_handle, p_processing,
                   p_queue, p_filter, p_nextSub, sock_state, sock_log, ppc,
                   r_sock, rc_attempt, rs_pos, p_rcAttempts, p_lateAttempt,
                   sock_by>>

\* the tasks the three handles of the client refer to that are not done
\* (_stop_background_tasks, lines 255-262)
TrackedLive ==
    IF p_handle = None THEN {}
    ELSE {x \in {RecvT(p_handle), HbT(p_handle), MonT(p_handle)} :
             ppc[x] \notin {"none", "done"}}

\* disconnect(), lines 162-166: the flags are set and every tracked task
\* that is not done is cancelled and awaited (CancelledError is not caught
\* by any "except Exception" of the tasks, so a cancelled task ends)
disconnect ==
    /\ ppc[User] = "idle"
    /\ p_should_reconnect' = FALSE
    /\ p_shutdown' = TRUE
    /\ ppc' = [x \in Threads |-> IF x = User THEN "stopping"
                                 ELSE IF x \in TrackedLive THEN "done"
                                 ELSE ppc[x]]
    /\ r_sock' = [g \in Socks |-> IF RecvT(g) \in TrackedLive THEN None ELSE r_sock[g]]
    /\ rc_attempt' = [x \in Reconnectors |-> IF x \in TrackedLive THEN 0 ELSE rc_attempt[x]]
    /\ rs_pos' = [x \in ConnThreads |-> IF x \in TrackedLive THEN 0 ELSE rs_pos[x]]
    /\ r_frame' = [g \in Socks |-> IF RecvT(g) \in TrackedLive THEN "none" ELSE r_frame[g]]
    /\ UNCHANGED <<p_env, p_replayed, p_clock, p_hb_at, p_msg_at, p_dispatched>>
    /\ UNCHANGED <<p_connected, p_ws, p_reconnect_attempts, p_last_heartbeat,
                   p_handle, p_processing, p_queue, p_subs, p_filter,
                   p_nextSub, sock_state, sock_log, p_rcAttempts,
                   p_lateAttempt, sock_by>>

\* _stop_background_tasks, lines 269-271, and disconnect(), lines 169-171:
\* the handles are dropped and the socket the client holds is closed
DisconnectClose ==
    /\ ppc[User] = "stopping"
    /\ p_handle' = None
    /\ IF p_ws # None
       THEN /\ sock_state' = [sock_state EXCEPT ![p_ws] = "closed"]
            /\ sock_log' = [sock_log EXCEPT ![p_ws] = [m \in SubMsgs |-> 0]]
            /\ ppc' = [ppc EXCEPT ![User] = "closing"]
            /\ UNCHANGED p_connected
       ELSE /\ p_connected' = FALSE
            /\ ppc' = [ppc EXCEPT ![User] = "disconnected"]
            /\ UNCHANGED <<sock_state, sock_log>>
    /\ UNCHANGED <<p_env, p_replayed, pinVars>>
    /\ UNCHANGED <<p_ws, p_reconnect_attempts, p_last_heartbeat,
                   p_should_reconnect, p_shutdown, p_processing, p_queue,
                   p_subs, p_filter, p_nextSub, r_sock, rc_attempt,
                   rs_pos, p_rcAttempts, p_lateAttempt, sock_by>>

\* disconnect(), lines 174-178: close() has returned; disconnect() returns
DisconnectDone ==
    /\ ppc[User] = "closing"
    /\ p_ws' = None
    /\ p_connected' = FALSE
    /\ ppc' = [ppc EXCEPT ![User] = "disconnected"]
    /\ UNCHANGED <<p_env, p_replayed, pinVars>>
    /\ UNCHANGED <<p_reconnect_attempts, p_last_heartbeat, p_should_reconnect,
                   p_shutdown, p_handle, p_processing, p_queue, p_subs,
                   p_filter, p_nextSub, sock_state, sock_log, r_sock,
                   rc_attempt, rs_pos, p_rcAttempts, p_lateAttempt, sock_by>>

\* the receive loops suspended in recv() on socket s
WaitingOn(s) == {g \in Socks : ppc[RecvT(g)] = "recv" /\ r_sock[g] = s}

\* _message_handler, lines 275-280 and 295-298: the loop condition, the
\* socket test and the call of recv() on the socket the client holds; a
\* recv() on a socket another task is already reading raises, and the loop
\* sleeps one second
RecvLoopPc(g) ==
    IF ~(p_connected /\ ~p_shutdown) THEN "done"
    ELSE IF p_ws = None THEN "done"
    ELSE IF WaitingOn(p_ws) \ {g} # {} THEN "errsleep"
    ELSE "recv"

\* the receive loop wakes from the sleep of line 298
RecvLoop(g) ==
    /\ ppc[RecvT(g)] = "errsleep"
    /\ ppc' = [ppc EXCEPT ![RecvT(g)] = RecvLoopPc(g)]
    /\ r_sock' = [r_sock EXCEPT ![g] = IF RecvLoopPc(g) = "recv" THEN p_ws ELSE None]
    /\ UNCHANGED <<p_env, p_replayed, pinVars>>
    /\ UNCHANGED <<p_connected, p_ws, p_reconnect_attempts, p_last_heartbeat,
                   p_should_reconnect, p_shutdown, p_handle, p_processing,
                   p_queue, p_subs, p_filter, p_nextSub, sock_state, sock_log,
                   rc_attempt, rs_pos, p_rcAttempts, p_lateAttempt, sock_by>>

\* _message_handler, lines 280-284: a frame arrives and is parsed, and the
\* loop awaits Queue.put: with room in the queue the frame is queued and the
\* loop calls recv() again; with the queue at its maxsize the put suspends
\* the loop until the processor has taken a frame (asyncio.Queue.put never
\* raises QueueFull, so line 286 is never reached)
RecvMessage(g, ty) ==
    /\ ppc[RecvT(g)] = "recv"
    /\ sock_state[r_sock[g]] = "open"
    /\ p_msg_at' = p_clock
    /\ IF Len(p_queue) < MaxQueue
       THEN /\ p_queue' = Append(p_queue, ty)
            /\ ppc' = [ppc EXCEPT ![RecvT(g)] = RecvLoopPc(g)]
            /\ r_sock' = [r_sock EXCEPT ![g] = IF RecvLoopPc(g) = "recv" THEN p_ws ELSE None]
            /\ UNCHANGED r_frame
       ELSE /\ ppc' = [ppc EXCEPT ![RecvT(g)] = "put"]
            /\ r_frame' = [r_frame EXCEPT ![g] = ty]
            /\ UNCHANGED <<p_queue, r_sock>>
    /\ UNCHANGED <<p_env, p_replayed, p_clock, p_hb_at, p_dispatched>>
    /\ UNCHANGED <<p_connected, p_ws, p_reconnect_attempts, p_last_heartbeat,
                   p_should_reconnect, p_shutdown, p_handle, p_processing,
                   p_subs, p_filter, p_nextSub, sock_state, sock_log,
                   rc_attempt, rs_pos, p_rcAttempts, p_lateAttempt, sock_by>>

\* _message_handler, line 284: the queue has room again, the suspended put
\* returns, and the loop calls recv() again
RecvPut(g) ==
    /\ ppc[RecvT(g)] = "put"
    /\ Len(p_queue) < MaxQueue
    /\ p_queue' = Append(p_queue, r_frame[g])
    /\ r_frame' = [r_frame EXCEPT ![g] = "none"]
    /\ ppc' = [ppc EXCEPT ![RecvT(g)] = RecvLoopPc(g)]
    /\ r_sock' = [r_sock EXCEPT ![g] = IF RecvLoopPc(g) = "recv" THEN p_ws ELSE None]
    /\ UNCHANGED <<p_env, p_replayed, p_clock, p_hb_at, p_msg_at, p_dispatched>>
    /\ UNCHANGED <<p_connected, p_ws, p_reconnect_attempts, p_last_heartbeat,
                   p_should_reconnect, p_shutdown, p_handle, p_processing,
                   p_subs, p_filter, p_nextSub, sock_state, sock_log,
                   rc_attempt, rs_pos, p_rcAttempts, p_lateAttempt, sock_by>>

\* _handle_reconnect, lines 466-475, entered by task t: the guard, the
\* connected flag, and the first backoff sleep
EnterReconnect(t) ==
    /\ p_connected' = FALSE
    /\ rc_attempt' = [rc_attempt EXCEPT ![t] = 0]
    /\ ppc' = [ppc EXCEPT ![t] = "rc_sleep"]

\* _message_handler, lines 290-294: recv() raises ConnectionClosed
RecvClosed(g) ==
    /\ ppc[RecvT(g)] = "recv"
    /\ sock_state[r_sock[g]] \in {"dropped", "closed"}
    /\ IF p_should_reconnect /\ ~p_shutdown
       THEN EnterReconnect(RecvT(g))
       ELSE /\ ppc' = [ppc EXCEPT ![RecvT(g)] = "done"]
            /\ UNCHANGED <<p_connected, rc_attempt>>
    /\ r_sock' = [r_sock EXCEPT ![g] = None]
    /\ UNCHANGED <<p_env, p_replayed, pinVars>>
    /\ UNCHANGED <<p_ws, p_reconnect_attempts, p_last_heartbeat,
                   p_should_reconnect, p_shutdown, p_handle, p_processing,
                   p_queue, p_subs, p_filter, p_nextSub, sock_state, sock_log,
                   rs_pos, p_rcAttempts, p_lateAttempt, sock_by>>

\* _connection_monitor, lines 445-462: one turn of the loop after the sleep
\* of line 458
MonitorStep(g) ==
    /\ ppc[MonT(g)] = "sleep"
    /\ IF ~(p_connected /\ ~p_shutdown)
       THEN /\ ppc' = [ppc EXCEPT ![MonT(g)] = "done"]
            /\ UNCHANGED <<p_connected, rc_attempt>>
       ELSE IF p_last_heartbeat = "stale"
       THEN IF p_should_reconnect /\ ~p_shutdown
            THEN EnterReconnect(MonT(g))
            ELSE /\ ppc' = [ppc EXCEPT ![MonT(g)] = "done"]
                 /\ UNCHANGED <<p_connected, rc_attempt>>
       ELSE /\ ppc' = [ppc EXCEPT ![MonT(g)] = "sleep"]
            /\ UNCHANGED <<p_connected, rc_attempt>>
    /\ UNCHANGED <<p_env, p_replayed, pinVars>>
    /\ UNCHANGED <<p_ws, p_reconnect_attempts, p_last_heartbeat,
                   p_should_reconnect, p_shutdown, p_handle, p_processing,
                   p_queue, p_subs, p_filter, p_nextSub, sock_state, sock_log,
                   r_sock, rs_pos, p_rcAttempts, p_lateAttempt, sock_by>>

\* _handle_reconnect, lines 475-480, and connect(), lines 116-136: the
\* backoff sleep of task t ends
ReconnectWake(t) ==
    /\ ppc[t] = "rc_sleep"
    /\ IF p_shutdown
       THEN /\ ppc' = [ppc EXCEPT ![t] = "done"]
            /\ rc_attempt' = [rc_attempt EXCEPT ![t] = 0]
            /\ p_should_reconnect' = FALSE
            /\ UNCHANGED <<p_rcAttempts, p_lateAttempt>>
       ELSE IF p_connected
       THEN /\ ppc' = [ppc EXCEPT ![t] = "done"]
            /\ rc_attempt' = [rc_attempt EXCEPT ![t] = 0]
            /\ UNCHANGED <<p_should_reconnect, p_rcAttempts, p_lateAttempt>>
       ELSE /\ ppc' = [ppc EXCEPT ![t] = "connecting"]
            /\ p_rcAttempts' = p_rcAttempts + 1
            /\ p_lateAttempt' = (p_lateAttempt \/ ~p_should_reconnect)
            /\ UNCHANGED <<p_should_reconnect, rc_attempt>>
    /\ UNCHANGED <<p_env, p_replayed, pinVars>>
    /\ UNCHANGED <<p_connected, p_ws, p_reconnect_attempts, p_last_heartbeat,
                   p_shutdown, p_handle, p_processing, p_queue, p_subs,
                   p_filter, p_nextSub, sock_state, sock_log, r_sock, rs_pos,
                   sock_by>>

\* _heartbeat_sender, lines 429-441: one turn of the loop after the sleep of
\* line 437
HeartbeatStep(g) ==
    /\ ppc[HbT(g)] = "sleep"
    /\ ppc' = [ppc EXCEPT ![HbT(g)] =
                  IF p_connected /\ ~p_shutdown /\ SendOk THEN "sleep" ELSE "done"]
    /\ UNCHANGED <<p_env, p_replayed, pinVars>>
    /\ UNCHANGED <<p_connected, p_ws, p_reconnect_attempts, p_last_heartbeat,
                   p_should_reconnect, p_shutdown, p_handle, p_processing,
                   p_queue, p_subs, p_filter, p_nextSub, sock_state, sock_log,
                   r_sock, rc_attempt, rs_pos, p_rcAttempts, p_lateAttempt,
                   sock_by>>

\* _handle_message, lines 327-351, and _dispatch_event, lines 394-403: the
\* type of the event that is passed to the handlers registered for its type,
\* "none" when the frame is handled without one.  A handler is registered
\* for every EventType, as events() does (lines 711-712).
DispatchedEvent(ty) ==
    IF ty \in {"subscription_ack", "error"} THEN "none" ELSE ty

\* _process_message_queue, lines 302-311, and _handle_message, lines
\* 327-351: a frame is taken from the queue and handled
ProcessorGet(g) ==
    /\ ppc[ProcT(g)] = "wait"
    /\ p_queue # <<>>
    /\ p_queue' = Tail(p_queue)
    /\ p_last_heartbeat' = IF Head(p_queue) = "heartbeat" THEN "fresh"
                           ELSE p_last_heartbeat
    /\ p_hb_at' = IF Head(p_queue) = "heartbeat" THEN p_clock ELSE p_hb_at
    /\ p_dispatched' = IF DispatchedEvent(Head(p_queue)) = "none" THEN p_dispatched
                       ELSE DispatchedEvent(Head(p_queue))
    /\ ppc' = [ppc EXCEPT ![ProcT(g)] = IF p_shutdown THEN "done" ELSE "wait"]
    /\ p_processing' = IF p_shutdown THEN FALSE ELSE p_processing
    /\ UNCHANGED <<p_env, p_replayed, p_clock, p_msg_at, r_frame>>
    /\ UNCHANGED <<p_connected, p_ws, p_reconnect_attempts, p_should_reconnect,
                   p_shutdown, p_handle, p_subs, p_filter, p_nextSub,
                   sock_state, sock_log, r_sock, rc_attempt, rs_pos,
                   p_rcAttempts, p_lateAttempt, sock_by>>

\* _process_message_queue, lines 305-317: the one-second wait for a frame
\* times out and the loop condition ends the task
ProcessorTimeout(g) ==
    /\ ppc[ProcT(g)] = "wait"
    /\ p_queue = <<>>
    /\ p_shutdown
    /\ ppc' = [ppc EXCEPT ![ProcT(g)] = "done"]
    /\ p_processing' = FALSE
    /\ UNCHANGED <<p_env, p_replayed, pinVars>>
    /\ UNCHANGED <<p_connected, p_ws, p_reconnect_attempts, p_last_heartbeat,
                   p_should_reconnect, p_shutdown, p_handle, p_queue, p_subs,
                   p_filter, p_nextSub, sock_state, sock_log, r_sock,
                   rc_attempt, rs_pos, p_rcAttempts, p_lateAttempt, sock_by>>

\* the network or the server drops an open socket
SocketDrop(s) ==
    /\ sock_state[s] = "open"
    /\ ppc[User] \notin {"connecting", "resub"}
    /\ sock_state' = [sock_state EXCEPT ![s] = "dropped"]
    /\ sock_log' = [sock_log EXCEPT ![s] = [m \in SubMsgs |-> 0]]
    /\ p_env.drops < MaxDrops
    /\ p_env' = [p_env EXCEPT !.drops = @ + 1]
    /\ UNCHANGED <<p_replayed, pinVars>>
    /\ UNCHANGED <<p_connected, p_ws, p_reconnect_attempts, p_last_heartbeat,
                   p_should_reconnect, p_shutdown, p_handle, p_processing,
                   p_queue, p_subs, p_filter, p_nextSub, ppc, r_sock,
                   rc_attempt, rs_pos, p_rcAttempts, p_lateAttempt, sock_by>>

\* more than 3 x heartbeat_interval pass without a heartbeat frame having
\* been handled (lines 449-452)
HeartbeatLapse ==
    /\ ppc[User] \notin {"connecting", "resub"}
    /\ p_last_heartbeat = "fresh"
    /\ p_last_heartbeat' = "stale"
    /\ p_env.lapses < MaxLapses
    /\ p_env' = [p_env EXCEPT !.lapses = @ + 1]
    /\ UNCHANGED <<p_replayed, pinVars>>
    /\ UNCHANGED <<p_connected, p_ws, p_reconnect_attempts, p_should_reconnect,
                   p_shutdown, p_handle, p_processing, p_queue, p_subs,
                   p_filter, p_nextSub, sock_state, sock_log, ppc, r_sock,
                   rc_attempt, rs_pos, p_rcAttempts, p_lateAttempt, sock_by>>

\* one heartbeat_interval passes (a receive loop whose put can go on does so
\* first); p_last_heartbeat is what the comparison of lines 449-452 finds
PushTick ==
    /\ p_clock < MaxPushClock
    /\ ~(Len(p_queue) < MaxQueue /\ \E g \in Socks : ppc[RecvT(g)] = "put")
    /\ p_clock' = p_clock + 1
    /\ p_last_heartbeat' = IF p_last_heartbeat = "None" THEN "None"
                           ELSE IF (p_clock + 1) - p_hb_at > HeartbeatTimeout
                           THEN "stale"
                           ELSE "fresh"
    /\ UNCHANGED <<p_env, p_replayed, p_hb_at, p_msg_at, p_dispatched, r_frame>>
    /\ UNCHANGED <<p_connected, p_ws, p_reconnect_attempts, p_should_reconnect,
                   p_shutdown, p_handle, p_processing, p_queue, p_subs,
                   p_filter, p_nextSub, sock_state, sock_log, ppc, r_sock,
                   rc_attempt, rs_pos, p_rcAttempts, p_lateAttempt, sock_by>>

(***************************************************************************)
(* DXTradeStreamManager (websocket/stream_manager.py)                      *)
(*                                                                         *)
(* Two streams, "market_data" and "portfolio", each with its own socket    *)
(* attribute and status.  Every socket has one task running                *)
(* _handle_websocket_messages; a reconnect is a chain of do_reconnect      *)
(* tasks, named here by the socket whose close started it.  The options    *)
(* are the defaults (both streams enabled, enable_ping_response and        *)
(* auto_reconnect True) with one symbol in options.symbols.  Every         *)
(* callback is registered; on_error, on_raw_message, on_market_data and    *)
(* an event handler may raise, the others return.  SpecStream is the       *)
(* manager with a server that sends frames; SpecStreamLife is the manager  *)
(* whose caller also adds symbols and calls destroy().                     *)
(***************************************************************************)
MaxStreamSocks == 3
MaxFrames == 2
MaxStreamDrops == 1
\* options.max_reconnect_attempts
max_reconnect_attempts == 2

ConnTypes == {"market_data", "portfolio"}
StreamSocks == 1..MaxStreamSocks
\* the text frames a server sends: the object {"type":"PingRequest"}, the
\* JSON string "PingRequest", a data frame {"type":"MarketData",...}, and a
\* successful {"type":"SubscriptionResponse",...} that names its request
\* either "request_id" or, as the requests of this client do, "requestId"
FrameKinds == {"PingRequestObject", "PingRequestString", "MarketData",
               "SubscriptionResponse", "SubscriptionResponseCamel"}
\* which of the callables registered for a frame raises when it is called:
\* none, callbacks.on_raw_message, callbacks.on_market_data, or the first
\* of the two handlers registered with on("marketData", ...)
Raisers == {"none", "on_raw_message", "on_market_data", "handler"}
\* what callbacks.on_error does when it is called
CallbackEnds == {"returns", "raises"}
\* stream_config.session_token, fixed at construction
StreamToken == "session_token"
NoFrame == [from |-> None, kind |-> "none", replies |-> 0, on |-> None,
            session |-> "none", message_event |-> FALSE, raised |-> "none",
            invoked |-> {}]

StreamInit ==
    /\ sm_ws = [c \in ConnTypes |-> None]
    /\ sm_connected = [c \in ConnTypes |-> FALSE]
    /\ sm_subscribed = [c \in ConnTypes |-> FALSE]
    /\ sm_is_ready = FALSE
    /\ sm_attempts = [c \in ConnTypes |-> 0]
    /\ sm_timers = [c \in ConnTypes |-> None]
    /\ sm_ping_stats = [requests_received |-> 0, responses_sent |-> 0]
    /\ ss_state = [s \in StreamSocks |-> "unused"]
    /\ ss_type = [s \in StreamSocks |-> "none"]
    /\ hd_pc = [s \in StreamSocks |-> "none"]
    /\ rc_pc = [s \in StreamSocks |-> "none"]
    /\ cpc = "idle"
    /\ sm_pending = {}
    /\ sm_results = [c \in ConnTypes |-> "none"]
    /\ sm_all_connected = TRUE
    /\ sm_on_error = [c \in ConnTypes |-> {}]
    /\ sm_last = NoFrame
    /\ sm_env = [frames |-> 0, drops |-> 0, subs |-> 0]
    /\ sm_is_destroyed = FALSE
    /\ dt_pc = "none"
    /\ ss_sent = [s \in StreamSocks |-> {}]
    /\ sm_wanted = {}
    /\ u_is_connected = FALSE

FreeSocks == {s \in StreamSocks : ss_state[s] = "unused"}

\* options.symbols, the symbols a caller adds later with
\* subscribe_to_market_data, and the mark of the one request of
\* subscribe_to_portfolio_data
OptionSymbols == {"EURUSD"}
ExtraSymbols == {"XAUUSD"}
PortfolioRequest == "AccountPortfolios"

\* subscribe_to_market_data / subscribe_to_portfolio_data on the stored
\* socket of stream c, given the socket attributes ws and the socket states
\* st: the request is written when the socket is there and not closed
CanSend(c, ws, st) == ws[c] # None /\ st[ws[c]] = "open"

\* what the sockets have been sent once `what` was requested of stream c
SendOn(c, what, ws, st, sent) ==
    IF CanSend(c, ws, st) THEN [sent EXCEPT ![ws[c]] = @ \cup what] ELSE sent

\* _subscribe_to_enabled_streams (lines 517-531): options.symbols on the
\* market-data stream and the portfolio request on the portfolio stream,
\* each when its status says connected
SubscribeEnabled(conn, ws, st, sent) ==
    LET md == IF conn["market_data"]
              THEN SendOn("market_data", OptionSymbols, ws, st, sent)
              ELSE sent
    IN IF conn["portfolio"]
       THEN SendOn("portfolio", {PortfolioRequest}, ws, st, md)
       ELSE md

\* _update_ready_state, for the flags conn and sub: both streams are enabled
_update_ready_state(conn, sub) == \A c \in ConnTypes : conn[c] /\ sub[c]

\* one call of callbacks.on_error(c, e) made by the function `by`, with the
\* reconnect_attempts of the stream at the time of the call
ErrorCall(c, by) == [by |-> by, attempts |-> sm_attempts[c]]

\* _connect_market_data / _connect_portfolio, the success path: the socket
\* is stored, its message task is created, the status is updated
StreamOpen(c) ==
    LET s == MinOf(FreeSocks) IN
    /\ FreeSocks # {}
    /\ sm_ws' = [sm_ws EXCEPT ![c] = s]
    /\ ss_state' = [ss_state EXCEPT ![s] = "open"]
    /\ ss_type' = [ss_type EXCEPT ![s] = c]
    /\ hd_pc' = [hd_pc EXCEPT ![s] = "iter"]
    /\ sm_connected' = [sm_connected EXCEPT ![c] = TRUE]
    /\ sm_attempts' = [sm_attempts EXCEPT ![c] = 0]

\* connect(), up to the gather of the two _connect_* coroutines; the caller
\* calls it once, on the manager as constructed
StreamConnect ==
    /\ cpc = "idle"
    /\ ~sm_is_destroyed
    /\ cpc' = "connecting"
    /\ sm_pending' = ConnTypes
    /\ sm_all_connected' = TRUE
    /\ UNCHANGED <<sm_ws, sm_connected, sm_attempts, sm_timers, sm_ping_stats,
                   ss_state, ss_type, hd_pc, rc_pc, sm_last, sm_env,
                   sm_subscribed, sm_is_ready, sm_results, sm_on_error>>
    /\ UNCHANGED <<sm_is_destroyed, dt_pc, ss_sent, sm_wanted, u_is_connected>>

\* what connect() does once the last of the gathered coroutines has ended
AfterGather(left) == IF left = {} THEN "connected" ELSE "connecting"

\* connect() after the gather (lines 101-105): with all_connected it calls
\* _subscribe_to_enabled_streams
SentAfterGather(left, all, conn, ws, st) ==
    IF left = {} /\ all THEN SubscribeEnabled(conn, ws, st, ss_sent)
    ELSE ss_sent

\* the symbols the manager has been asked for and has sent a request for
WantedAfterGather(left, all, conn, ws, st) ==
    IF left = {} /\ all /\ conn["market_data"] /\ CanSend("market_data", ws, st)
    THEN sm_wanted \cup OptionSymbols
    ELSE sm_wanted

\* connect() after the gather (lines 101-105): with all_connected it calls
\* _update_ready_state on the flags conn
ReadyAfterGather(left, all, conn) ==
    IF left = {} /\ all THEN _update_ready_state(conn, sm_subscribed)
    ELSE sm_is_ready

\* UnifiedWebSocketStream.connect (unified_stream.py:127): the flag takes
\* the value connect() of the manager returns
ConnectedAfterGather(left, all) == IF left = {} THEN all ELSE u_is_connected

\* connect(): websockets.connect of stream c succeeds
CallerConnectOk(c) ==
    /\ cpc = "connecting"
    /\ c \in sm_pending
    /\ StreamOpen(c)
    /\ sm_pending' = sm_pending \ {c}
    /\ sm_results' = [sm_results EXCEPT ![c] = "True"]
    /\ cpc' = AfterGather(sm_pending \ {c})
    /\ sm_is_ready' = ReadyAfterGather(sm_pending \ {c}, sm_all_connected,
                                       [sm_connected EXCEPT ![c] = TRUE])
    /\ ss_sent' = SentAfterGather(sm_pending \ {c}, sm_all_connected,
                                  sm_connected', sm_ws', ss_state')
    /\ sm_wanted' = WantedAfterGather(sm_pending \ {c}, sm_all_connected,
                                      sm_connected', sm_ws', ss_state')
    /\ u_is_connected' = ConnectedAfterGather(sm_pending \ {c}, sm_all_connected)
    /\ UNCHANGED <<sm_timers, sm_ping_stats, rc_pc, sm_all_connected,
                   sm_last, sm_env, sm_subscribed, sm_on_error,
                   sm_is_destroyed, dt_pc>>

\* connect(): websockets.connect of stream c fails or times out; _connect_*
\* calls on_error and returns False, or ends with the exception on_error
\* raised.  all_connected (line 101) is taken over the results that are not
\* exceptions
CallerConnectFail(c, cb) ==
    /\ cpc = "connecting"
    /\ c \in sm_pending
    /\ sm_pending' = sm_pending \ {c}
    /\ sm_on_error' = [sm_on_error EXCEPT ![c] = @ \cup {ErrorCall(c, "connect")}]
    /\ sm_results' = [sm_results EXCEPT
                        ![c] = IF cb = "raises" THEN "Exception" ELSE "False"]
    /\ sm_all_connected' = (sm_all_connected /\ cb = "raises")
    /\ cpc' = AfterGather(sm_pending \ {c})
    /\ sm_is_ready' = ReadyAfterGather(sm_pending \ {c},
                                       sm_all_connected /\ cb = "raises",
                                       sm_connected)
    /\ ss_sent' = SentAfterGather(sm_pending \ {c},
                                  sm_all_connected /\ cb = "raises",
                                  sm_connected, sm_ws, ss_state)
    /\ sm_wanted' = WantedAfterGather(sm_pending \ {c},
                                      sm_all_connected /\ cb = "raises",
                                      sm_connected, sm_ws, ss_state)
    /\ u_is_connected' = ConnectedAfterGather(sm_pending \ {c},
                                              sm_all_connected /\ cb = "raises")
    /\ UNCHANGED <<sm_ws, sm_connected, sm_attempts, sm_timers, sm_ping_stats,
                   ss_state, ss_type, hd_pc, rc_pc, sm_last, sm_env,
                   sm_subscribed, sm_is_destroyed, dt_pc>>

\* json.loads(raw_message) followed by message.get("type"): an object gives
\* its type, a JSON string has no get() and raises AttributeError
ParsedType(k) ==
    CASE k = "PingRequestObject" -> "PingRequest"
      [] k = "PingRequestString" -> "AttributeError"
      [] k \in {"SubscriptionResponse", "SubscriptionResponseCamel"} ->
            "SubscriptionResponse"
      [] OTHER -> "MarketData"

\* SubscriptionResponseMessage(**message): request_id is a required field
\* (dxtrade_messages.py:157), so a frame without that key is rejected
ValidSubscriptionResponse(k) == k = "SubscriptionResponse"

\* _send_ping_response: the socket the reply is written to, chosen by the
\* stream name; None when there is no reply
ReplySocket(c) ==
    IF sm_ws[c] = None THEN None
    ELSE IF ss_state[sm_ws[c]] = "open" THEN sm_ws[c]
    ELSE None

\* _handle_websocket_messages / _process_message: one frame of kind k read
\* from socket s, while the registered callable `bad` raises.  All the
\* callbacks are registered, "marketData" has two handlers and "message"
\* and "pingRequest" one each
StreamRecv(s, k, bad) ==
    /\ ss_state[s] = "open"
    /\ hd_pc[s] = "iter"
    /\ sm_env.frames < MaxFrames
    /\ bad \in {"on_market_data", "handler"} => k = "MarketData"
    /\ sm_env' = [sm_env EXCEPT !.frames = @ + 1]
    /\ LET c == ss_type[s]
           to == ReplySocket(c)
           sub == [sm_subscribed EXCEPT ![c] = TRUE]
       IN
        CASE bad = "on_raw_message" ->
                \* line 388 is outside the try of _process_message: the
                \* exception ends the loop of _handle_websocket_messages,
                \* which reports it (382) and again in
                \* _handle_connection_error (515)
                /\ sm_last' = [from |-> s, kind |-> k, replies |-> 0,
                               on |-> None, session |-> "none",
                               message_event |-> FALSE,
                               raised |-> bad,
                               invoked |-> {"on_raw_message"}]
                /\ hd_pc' = [hd_pc EXCEPT ![s] = "done"]
                /\ sm_on_error' = [sm_on_error EXCEPT
                                     ![c] = @ \cup {ErrorCall(c, "receive")}]
                /\ UNCHANGED <<sm_ping_stats, sm_subscribed, sm_is_ready>>
          [] bad # "on_raw_message" /\ ParsedType(k) = "PingRequest" ->
                /\ sm_ping_stats' =
                     [requests_received |-> sm_ping_stats.requests_received + 1,
                      responses_sent |-> sm_ping_stats.responses_sent
                                          + (IF to # None THEN 1 ELSE 0)]
                /\ sm_last' = [from |-> s, kind |-> k,
                               replies |-> IF to # None THEN 1 ELSE 0,
                               on |-> to,
                               session |-> IF to # None THEN StreamToken ELSE "none",
                               message_event |-> TRUE,
                               raised |-> bad,
                               invoked |-> {"on_raw_message", "on_ping_request",
                                            "pingRequest", "message"}]
                /\ UNCHANGED <<hd_pc, sm_on_error, sm_subscribed, sm_is_ready>>
          [] bad # "on_raw_message" /\ ParsedType(k) = "AttributeError" ->
                /\ sm_last' = [from |-> s, kind |-> k, replies |-> 0,
                               on |-> None, session |-> "none",
                               message_event |-> FALSE,
                               raised |-> bad,
                               invoked |-> {"on_raw_message"}]
                /\ UNCHANGED <<sm_ping_stats, hd_pc, sm_on_error,
                               sm_subscribed, sm_is_ready>>
          [] bad # "on_raw_message" /\ ParsedType(k) = "SubscriptionResponse" ->
                \* _handle_subscription_response: the flag is set, then the
                \* message object is built for the callback, then
                \* _update_ready_state is called
                /\ sm_subscribed' = sub
                /\ IF ValidSubscriptionResponse(k)
                   THEN /\ sm_is_ready' = _update_ready_state(sm_connected, sub)
                        /\ sm_last' = [from |-> s, kind |-> k, replies |-> 0,
                                       on |-> None, session |-> "none",
                                       message_event |-> TRUE,
                                       raised |-> bad,
                                       invoked |-> {"on_raw_message",
                                                    "on_subscription_response",
                                                    "message"}]
                   ELSE /\ UNCHANGED sm_is_ready
                        /\ sm_last' = [from |-> s, kind |-> k, replies |-> 0,
                                       on |-> None, session |-> "none",
                                       message_event |-> FALSE,
                                       raised |-> bad,
                                       invoked |-> {"on_raw_message"}]
                /\ UNCHANGED <<sm_ping_stats, hd_pc, sm_on_error>>
          [] OTHER ->
                \* lines 398-401 and 419: on_market_data, then the
                \* "marketData" handlers, then the "message" handlers; emit
                \* catches what a handler raises, nothing catches what
                \* on_market_data raises before the except of line 423
                /\ sm_last' = [from |-> s, kind |-> k, replies |-> 0,
                               on |-> None, session |-> "none",
                               message_event |-> bad # "on_market_data",
                               raised |-> bad,
                               invoked |->
                                  IF bad = "on_market_data"
                                  THEN {"on_raw_message", "on_market_data"}
                                  ELSE {"on_raw_message", "on_market_data",
                                        "marketData_1", "marketData_2",
                                        "message"}]
                /\ UNCHANGED <<sm_ping_stats, hd_pc, sm_on_error,
                               sm_subscribed, sm_is_ready>>
    /\ UNCHANGED <<sm_ws, sm_connected, sm_attempts, sm_timers, ss_state,
                   ss_type, rc_pc, cpc, sm_pending, sm_all_connected,
                   sm_results>>
    /\ UNCHANGED <<sm_is_destroyed, dt_pc, ss_sent, sm_wanted, u_is_connected>>

\* the server or the network ends an open socket: with a close frame
\* (code 1000) or without one (code 1006)
StreamDrop(s, code) ==
    /\ ss_state[s] = "open"
    /\ sm_env.drops < MaxStreamDrops
    /\ sm_env' = [sm_env EXCEPT !.drops = @ + 1]
    /\ ss_state' = [ss_state EXCEPT ![s] = code]
    /\ UNCHANGED <<sm_ws, sm_connected, sm_attempts, sm_timers, sm_ping_stats,
                   ss_type, hd_pc, rc_pc, cpc, sm_pending, sm_all_connected,
                   sm_last, sm_subscribed, sm_is_ready, sm_results,
                   sm_on_error>>
    /\ UNCHANGED <<sm_is_destroyed, dt_pc, ss_sent, sm_wanted, u_is_connected>>

\* _handle_reconnect(c), line 540
Exhausted(c) == sm_attempts[c] >= max_reconnect_attempts

\* _handle_reconnect(c) run by the task of chain ch: gives up at the
\* maximum, otherwise counts the attempt and creates the do_reconnect task
ScheduleReconnect(c, ch) ==
    IF Exhausted(c)
    THEN /\ rc_pc' = [rc_pc EXCEPT ![ch] = IF @ = "none" THEN "none" ELSE "done"]
         /\ UNCHANGED <<sm_attempts, sm_timers>>
    ELSE /\ sm_attempts' = [sm_attempts EXCEPT ![c] = @ + 1]
         /\ rc_pc' = [rc_pc EXCEPT ![ch] = "sleep"]
         /\ sm_timers' = [sm_timers EXCEPT ![c] = ch]

\* the calls of on_error that _handle_reconnect(c) adds to the calls `made`
\* (lines 540-546)
ReconnectErrors(c, made) ==
    IF Exhausted(c) THEN made \cup {ErrorCall(c, "_handle_reconnect")} ELSE made

\* _handle_websocket_messages: the iteration over socket s ends.  After a
\* close with code 1000 the loop just ends; otherwise ConnectionClosed is
\* raised and _handle_connection_closed runs
HandlerClosed(s) ==
    LET c == ss_type[s]
        conn == [sm_connected EXCEPT ![c] = FALSE]
        sub == [sm_subscribed EXCEPT ![c] = FALSE]
    IN
    /\ hd_pc[s] = "iter"
    /\ ss_state[s] \in {"closed_ok", "closed_error"}
    /\ hd_pc' = [hd_pc EXCEPT ![s] = "done"]
    /\ IF ss_state[s] = "closed_ok"
       THEN UNCHANGED <<sm_connected, sm_attempts, sm_timers, rc_pc,
                        sm_subscribed, sm_is_ready, sm_on_error>>
       ELSE /\ sm_connected' = conn
            /\ sm_subscribed' = sub
            /\ sm_is_ready' = _update_ready_state(conn, sub)
            /\ IF sm_is_destroyed
               THEN UNCHANGED <<sm_attempts, sm_timers, rc_pc, sm_on_error>>
               ELSE /\ sm_on_error' = [sm_on_error EXCEPT
                                         ![c] = ReconnectErrors(c, @)]
                    /\ ScheduleReconnect(c, s)
    /\ u_is_connected' = IF ss_state[s] = "closed_ok" THEN u_is_connected
                         ELSE FALSE
    /\ UNCHANGED <<sm_ws, sm_ping_stats, ss_state, ss_type, cpc, sm_pending,
                   sm_all_connected, sm_last, sm_env, sm_results>>
    /\ UNCHANGED <<sm_is_destroyed, dt_pc, ss_sent, sm_wanted>>

\* do_reconnect: the sleep of reconnect_delay ends
ReconnectTimerFires(ch) ==
    /\ rc_pc[ch] = "sleep"
    /\ rc_pc' = [rc_pc EXCEPT ![ch] = "connecting"]
    /\ UNCHANGED <<sm_ws, sm_connected, sm_attempts, sm_timers, sm_ping_stats,
                   ss_state, ss_type, hd_pc, cpc, sm_pending,
                   sm_all_connected, sm_last, sm_env, sm_subscribed,
                   sm_is_ready, sm_results, sm_on_error>>
    /\ UNCHANGED <<sm_is_destroyed, dt_pc, ss_sent, sm_wanted, u_is_connected>>

\* do_reconnect, lines 571-577: what is requested again of stream c
Resubscription(c) ==
    IF c = "market_data" THEN OptionSymbols ELSE {PortfolioRequest}

\* do_reconnect: _connect_* returns True, _update_ready_state is called and
\* the stream is subscribed again
ReconnectOk(ch) ==
    /\ rc_pc[ch] = "connecting"
    /\ StreamOpen(ss_type[ch])
    /\ rc_pc' = [rc_pc EXCEPT ![ch] = "done"]
    /\ sm_is_ready' = _update_ready_state(
                         [sm_connected EXCEPT ![ss_type[ch]] = TRUE],
                         sm_subscribed)
    /\ ss_sent' = SendOn(ss_type[ch], Resubscription(ss_type[ch]),
                         sm_ws', ss_state', ss_sent)
    /\ UNCHANGED <<sm_timers, sm_ping_stats, cpc, sm_pending,
                   sm_all_connected, sm_last, sm_env, sm_subscribed,
                   sm_results, sm_on_error, sm_is_destroyed, dt_pc,
                   sm_wanted>>
    /\ u_is_connected' = TRUE

\* do_reconnect: websockets.connect fails and _connect_* calls on_error
\* (lines 322-324).  When on_error returns, _connect_* returns False and
\* _handle_reconnect runs again; when it raises, the except of do_reconnect
\* calls it once more (583-584) and the task ends with what that call raises
ReconnectFail(ch, cb) ==
    LET c == ss_type[ch] IN
    /\ rc_pc[ch] = "connecting"
    /\ IF cb = "raises"
       THEN /\ rc_pc' = [rc_pc EXCEPT ![ch] = "done"]
            /\ sm_on_error' = [sm_on_error EXCEPT
                                 ![c] = @ \cup {ErrorCall(c, "do_reconnect")}]
            /\ UNCHANGED <<sm_attempts, sm_timers>>
       ELSE /\ sm_on_error' = [sm_on_error EXCEPT
                                 ![c] = ReconnectErrors(c,
                                          @ \cup {ErrorCall(c, "do_reconnect")})]
            /\ ScheduleReconnect(c, ch)
    /\ UNCHANGED <<sm_ws, sm_connected, sm_ping_stats, ss_state, ss_type,
                   hd_pc, cpc, sm_pending, sm_all_connected, sm_last, sm_env,
                   sm_subscribed, sm_is_ready, sm_results>>
    /\ UNCHANGED <<sm_is_destroyed, dt_pc, ss_sent, sm_wanted, u_is_connected>>

\* the sockets disconnect() closes: those stored and not closed yet
ToClose == {sm_ws[c] : c \in {d \in ConnTypes : sm_ws[d] # None}}

\* disconnect(), up to the gather of the close() calls:
\* _clear_reconnect_timers cancels the registered do_reconnect tasks; with
\* nothing to close it goes on to its end
DisconnectBegin ==
    /\ rc_pc' = [ch \in StreamSocks |->
                   IF /\ \E c \in ConnTypes : sm_timers[c] = ch
                      /\ rc_pc[ch] \in {"sleep", "connecting"}
                   THEN "cancelled" ELSE rc_pc[ch]]
    /\ sm_timers' = [c \in ConnTypes |-> None]
    /\ ss_state' = [s \in StreamSocks |->
                      IF s \in ToClose /\ ss_state[s] = "open"
                      THEN "closing" ELSE ss_state[s]]
    /\ IF ToClose = {}
       THEN /\ sm_ws' = [c \in ConnTypes |-> None]
            /\ sm_is_ready' = _update_ready_state(sm_connected, sm_subscribed)
       ELSE UNCHANGED <<sm_ws, sm_is_ready>>
    /\ UNCHANGED <<sm_connected, sm_attempts, sm_ping_stats, ss_type, hd_pc,
                   sm_pending, sm_all_connected, sm_last, sm_env,
                   sm_subscribed, sm_results, sm_on_error, sm_is_destroyed,
                   ss_sent, sm_wanted>>

\* disconnect() called by the caller, once connect() has returned
StreamDisconnect ==
    /\ cpc = "connected"
    /\ DisconnectBegin
    /\ cpc' = IF ToClose = {} THEN "disconnected" ELSE "disconnecting"
    /\ u_is_connected' = IF ToClose = {} THEN FALSE ELSE u_is_connected
    /\ UNCHANGED dt_pc

\* destroy(), lines 128-131: the flag is set and the task that will run
\* disconnect() is created; the caller goes on
destroy ==
    /\ cpc \in {"connected", "disconnected"}
    /\ ~sm_is_destroyed
    /\ sm_is_destroyed' = TRUE
    /\ dt_pc' = "created"
    /\ cpc' = "destroyed"
    /\ UNCHANGED <<sm_ws, sm_connected, sm_attempts, sm_timers, sm_ping_stats,
                   ss_state, ss_type, hd_pc, rc_pc, sm_pending,
                   sm_all_connected, sm_last, sm_env, sm_subscribed,
                   sm_is_ready, sm_results, sm_on_error, ss_sent, sm_wanted, u_is_connected>>

\* the task created by destroy() starts: disconnect() up to its gather
DestroyDisconnect ==
    /\ dt_pc = "created"
    /\ DisconnectBegin
    /\ dt_pc' = IF ToClose = {} THEN "done" ELSE "closing"
    /\ UNCHANGED <<cpc, u_is_connected>>

\* connect() on a destroyed manager, lines 86-87: WebSocketError
ConnectDestroyed ==
    /\ cpc = "destroyed"
    /\ sm_is_destroyed
    /\ cpc' = "WebSocketError"
    /\ UNCHANGED <<sm_ws, sm_connected, sm_attempts, sm_timers, sm_ping_stats,
                   ss_state, ss_type, hd_pc, rc_pc, sm_pending,
                   sm_all_connected, sm_last, sm_env, sm_subscribed,
                   sm_is_ready, sm_results, sm_on_error, sm_is_destroyed,
                   dt_pc, ss_sent, sm_wanted, u_is_connected>>

\* ws.close() ends: the closing handshake completed (code 1000) or it
\* failed or timed out (code 1006)
StreamCloseDone(s, code) ==
    /\ ss_state[s] = "closing"
    /\ ss_state' = [ss_state EXCEPT ![s] = code]
    /\ UNCHANGED <<sm_ws, sm_connected, sm_attempts, sm_timers, sm_ping_stats,
                   ss_type, hd_pc, rc_pc, cpc, sm_pending, sm_all_connected,
                   sm_last, sm_env, sm_subscribed, sm_is_ready, sm_results,
                   sm_on_error>>
    /\ UNCHANGED <<sm_is_destroyed, dt_pc, ss_sent, sm_wanted, u_is_connected>>

\* disconnect(), after the gather: both socket attributes are cleared and
\* _update_ready_state is called
DisconnectEnd ==
    /\ \A s \in StreamSocks : ss_state[s] # "closing"
    /\ sm_ws' = [c \in ConnTypes |-> None]
    /\ sm_is_ready' = _update_ready_state(sm_connected, sm_subscribed)
    /\ UNCHANGED <<sm_connected, sm_attempts, sm_timers, sm_ping_stats,
                   ss_state, ss_type, hd_pc, rc_pc, sm_pending,
                   sm_all_connected, sm_last, sm_env, sm_subscribed,
                   sm_results, sm_on_error, sm_is_destroyed, ss_sent,
                   sm_wanted>>

\* the caller's disconnect() returns
StreamDisconnectEnd ==
    /\ cpc = "disconnecting"
    /\ DisconnectEnd
    /\ cpc' = "disconnected"
    /\ u_is_connected' = FALSE
    /\ UNCHANGED dt_pc

\* the disconnect() of destroy() ends
DestroyDisconnectEnd ==
    /\ dt_pc = "closing"
    /\ DisconnectEnd
    /\ dt_pc' = "done"
    /\ UNCHANGED <<cpc, u_is_connected>>

\* subscribe_to_market_data(symbols), lines 167-191, called once connect()
\* has returned: False without a usable socket, otherwise the request is
\* written to the market-data socket
MaxUserSubs == 1
subscribe_to_market_data(symbols) ==
    /\ cpc = "connected"
    /\ sm_env.subs < MaxUserSubs
    /\ sm_env' = [sm_env EXCEPT !.subs = @ + 1]
    /\ ss_sent' = SendOn("market_data", symbols, sm_ws, ss_state, ss_sent)
    /\ sm_wanted' = IF CanSend("market_data", sm_ws, ss_state)
                    THEN sm_wanted \cup symbols ELSE sm_wanted
    /\ UNCHANGED <<sm_ws, sm_connected, sm_attempts, sm_timers, sm_ping_stats,
                   ss_state, ss_type, hd_pc, rc_pc, cpc, sm_pending,
                   sm_all_connected, sm_last, sm_subscribed, sm_is_ready,
                   sm_results, sm_on_error, sm_is_destroyed, dt_pc,
                   u_is_connected>>

(***************************************************************************)
(* DXTradeTransport (transport.py): the WebSocket channels                 *)
(*                                                                         *)
(* subscribe(channel, callback) starts one _websocket_handler task, which  *)
(* logs in if no token is held, connects, and then reads the socket until  *)
(* it closes or the task is cancelled by unsubscribe(channel).  A task is  *)
(* named by its number; the socket a task opens carries the same number.   *)
(***************************************************************************)
MaxTransportTasks == 3
MaxPingFrames == 2

Channels == {"quotes", "portfolio"}
TransportTasks == 1..MaxTransportTasks
\* the calls of request() and the POST /login calls of one run
NumTransportReqs == 2
MaxTransportLogins == 3
TransportReqs == 1..NumTransportReqs
\* the statuses a response carries
TransportStatuses == {200, 401, 500}
NoTransportResult == [kind |-> "none", status |-> 0]
\* the frames of a channel: the two forms of a ping request, and data
TransportFrames == {"PingRequestObject", "PingRequestString", "Data"}
\* the value of self._ping_stats.get(channel, {}) read with .get(key, 0),
\* as get_session_health reads it: an absent entry counts 0
NoStats == [present |-> FALSE, ping_requests_received |-> 0,
            ping_responses_sent |-> 0]
\* lines 409-415
ZeroStats == [present |-> TRUE, ping_requests_received |-> 0,
              ping_responses_sent |-> 0]

\* the last Ping reply sent: its "session" field and the token the session
\* handler held when it was sent
NoReply == [session |-> None, held |-> None]

TransportInit ==
    /\ t_session_token = None
    /\ t_websockets = [ch \in Channels |-> None]
    /\ t_subscriptions = [ch \in Channels |-> FALSE]
    /\ t_ws_tasks = [ch \in Channels |-> None]
    /\ t_ping_stats = [ch \in Channels |-> NoStats]
    /\ tt_pc = [t \in TransportTasks |-> "none"]
    /\ tt_channel = [t \in TransportTasks |-> "none"]
    /\ t_frames = 0
    /\ tt_token = [t \in TransportTasks |-> None]
    /\ tt_missed = [t \in TransportTasks |-> "no"]
    /\ t_reply = NoReply
    /\ t_logins = 0
    /\ tr_pc = [r \in TransportReqs |-> "idle"]
    /\ tr_hdr = [r \in TransportReqs |-> None]
    /\ tr_sent = [r \in TransportReqs |-> <<>>]
    /\ tr_resp = [r \in TransportReqs |-> <<>>]
    /\ tr_relogins = [r \in TransportReqs |-> 0]
    /\ tr_new = [r \in TransportReqs |-> None]
    /\ tr_result = [r \in TransportReqs |-> NoTransportResult]

\* SessionHandler.get_session_token(), called at lines 182, 394, 772 and
\* 823: the token the handler holds, or None
get_session_token == t_session_token

FreeTasks == {t \in TransportTasks : tt_pc[t] = "none"}

\* subscribe(channel, callback): returns at once when the channel has a
\* socket; otherwise stores the callback and creates the handler task
subscribe(ch) ==
    LET t == MinOf(FreeTasks) IN
    /\ FreeTasks # {}
    /\ t_websockets[ch] = None
    /\ t_subscriptions' = [t_subscriptions EXCEPT ![ch] = TRUE]
    /\ t_ws_tasks' = [t_ws_tasks EXCEPT ![ch] = t]
    /\ tt_pc' = [tt_pc EXCEPT ![t] = "start"]
    /\ tt_channel' = [tt_channel EXCEPT ![t] = ch]
    /\ UNCHANGED <<t_session_token, t_websockets, t_ping_stats, t_frames,
                   tt_token, tt_missed, t_reply>>

\* the finally block of _websocket_handler (lines 449-454): the entries of
\* the channel are removed, whichever task stored them
FinallyOf(t) ==
    /\ t_websockets' = [t_websockets EXCEPT ![tt_channel[t]] = None]
    /\ t_subscriptions' = [t_subscriptions EXCEPT ![tt_channel[t]] = FALSE]
    /\ t_ping_stats' = [t_ping_stats EXCEPT ![tt_channel[t]] = NoStats]
    /\ tt_pc' = [tt_pc EXCEPT ![t] = "done"]
    /\ tt_token' = [tt_token EXCEPT ![t] = None]
    /\ tt_missed' = [tt_missed EXCEPT ![t] = "no"]

\* _websocket_handler, lines 392-399: with a token it goes on to connect,
\* without one it calls authenticate() first
_websocket_handler(t) ==
    /\ tt_pc[t] = "start"
    /\ tt_pc' = [tt_pc EXCEPT ![t] =
                   IF get_session_token # None THEN "connecting" ELSE "login"]
    /\ tt_token' = [tt_token EXCEPT ![t] = get_session_token]
    /\ UNCHANGED <<t_session_token, t_websockets, t_subscriptions, t_ws_tasks,
                   t_ping_stats, tt_channel, t_frames, tt_missed, t_reply>>

\* authenticate() (lines 120-161) called by the handler: the POST /login
\* gives a token, which is stored in the session handler, or it raises
TransportLogin(t, ok) ==
    /\ tt_pc[t] = "login"
    /\ IF ok
       THEN /\ t_session_token' = 1
            /\ tt_token' = [tt_token EXCEPT ![t] = 1]
            /\ tt_pc' = [tt_pc EXCEPT ![t] = "connecting"]
            /\ UNCHANGED <<t_websockets, t_subscriptions, t_ping_stats,
                           tt_missed>>
       ELSE /\ FinallyOf(t)
            /\ UNCHANGED t_session_token
    /\ UNCHANGED <<t_ws_tasks, tt_channel, t_frames, t_reply>>

\* _establish_websocket_connection returns: a socket, which is stored and
\* whose counters are initialised (lines 404-415), or None
HandlerConnected(t, ok) ==
    /\ tt_pc[t] = "connecting"
    /\ IF ok
       THEN /\ t_websockets' = [t_websockets EXCEPT ![tt_channel[t]] = t]
            /\ t_ping_stats' = [t_ping_stats EXCEPT ![tt_channel[t]] = ZeroStats]
            /\ tt_pc' = [tt_pc EXCEPT ![t] = "open"]
            /\ UNCHANGED <<t_subscriptions, tt_token, tt_missed>>
       ELSE FinallyOf(t)
    /\ UNCHANGED <<t_session_token, t_ws_tasks, tt_channel, t_frames, t_reply>>

\* _handle_ping_pong for a ping request: the counters of the entry stored
\* for the channel, after the request is counted and, when the send
\* succeeded, the reply; with no entry the counts go to a temporary dict
PingCounted(stats, sent) ==
    IF stats.present
    THEN [stats EXCEPT !.ping_requests_received = @ + 1,
                       !.ping_responses_sent = @ + (IF sent THEN 1 ELSE 0)]
    ELSE stats

\* a handler loop that lets the exception of a failed reply escape, to
\* test C32
AfterPing_Raises(sent) == IF sent THEN "open" ELSE "closed"

\* _handle_ping_pong, lines 531-533, and the loop of lines 421-445: where
\* the handler task is after a ping request; an exception of the send is
\* caught and logged, and the loop reads the next frame
AfterPing(sent) == "open"

\* one frame read by the handler task t (lines 421-445); sent tells
\* whether websocket.send of the reply succeeded.  The reply to a
\* {"type": "PingRequest"} carries the token the task read when it started
\* (lines 394-396, 487-490); the reply to a string ping is the text "Ping".
TransportRecv(t, k, sent) ==
    /\ tt_pc[t] = "open"
    /\ t_frames < MaxPingFrames
    /\ t_frames' = t_frames + 1
    /\ k = "Data" => sent
    /\ t_ping_stats' =
          IF k = "Data" THEN t_ping_stats
          ELSE [t_ping_stats EXCEPT ![tt_channel[t]] = PingCounted(@, sent)]
    /\ tt_pc' = [tt_pc EXCEPT ![t] = IF k = "Data" THEN "open" ELSE AfterPing(sent)]
    /\ tt_missed' = [tt_missed EXCEPT ![t] =
                        IF k # "Data" /\ ~sent THEN "missed"
                        ELSE IF @ = "missed" THEN "resumed"
                        ELSE @]
    /\ t_reply' = IF k = "PingRequestObject" /\ sent
                  THEN [session |-> tt_token[t], held |-> get_session_token]
                  ELSE t_reply
    /\ UNCHANGED <<t_session_token, t_websockets, t_subscriptions, t_ws_tasks,
                   tt_channel, tt_token>>

\* the socket of task t is closed by the server or lost: the iteration
\* ends, normally or with ConnectionClosed, and the finally block runs
TransportSocketLost(t) ==
    /\ tt_pc[t] \in {"open", "closed"}
    /\ FinallyOf(t)
    /\ UNCHANGED <<t_session_token, t_ws_tasks, tt_channel, t_frames, t_reply>>

\* unsubscribe(channel), lines 535-554: the task registered for the channel
\* is cancelled and awaited, which runs its finally block if it had
\* started; then the socket still stored for the channel is closed and the
\* callback is removed
transport_unsubscribe(ch) ==
    LET t == t_ws_tasks[ch]
        owner == t_websockets[ch]
        started == IF t = None THEN FALSE
                   ELSE tt_pc[t] \in {"login", "connecting", "open"}
        cancelled == IF t = None THEN FALSE ELSE started \/ tt_pc[t] = "start"
    IN
    /\ t # None \/ owner # None
    /\ t_ws_tasks' = [t_ws_tasks EXCEPT ![ch] = None]
    /\ t_websockets' = [t_websockets EXCEPT ![ch] = None]
    /\ t_subscriptions' = [t_subscriptions EXCEPT ![ch] = FALSE]
    /\ t_ping_stats' = IF started THEN [t_ping_stats EXCEPT ![ch] = NoStats]
                       ELSE t_ping_stats
    /\ tt_pc' = [x \in TransportTasks |->
                   IF cancelled /\ x = t THEN "done"
                   ELSE IF ~started /\ x = owner /\ tt_pc[x] = "open"
                        THEN "closed"
                   ELSE tt_pc[x]]
    /\ tt_token' = [x \in TransportTasks |->
                      IF cancelled /\ x = t THEN None ELSE tt_token[x]]
    /\ tt_missed' = [x \in TransportTasks |->
                       IF cancelled /\ x = t THEN "no" ELSE tt_missed[x]]
    /\ UNCHANGED <<t_session_token, tt_channel, t_frames, t_reply>>

(***************************************************************************)
(* DXTradeTransport (transport.py): request()                              *)
(*                                                                         *)
(* Each call of request() is one coroutine; the calls share the token held *)
(* by the session handler.  Every successful POST /login gives a token the *)
(* server has not given before.                                            *)
(***************************************************************************)
\* the WebSocket state of the transport, which request() leaves alone
transportWsVars == <<t_websockets, t_subscriptions, t_ws_tasks, t_ping_stats,
                     tt_pc, tt_channel, t_frames, tt_token, tt_missed,
                     t_reply>>

\* a _parse_response that lets a 401 through, to test C24
_parse_response_Lenient(st) ==
    IF st >= 400 /\ st # 401 THEN [kind |-> "ClientResponseError", status |-> st]
    ELSE [kind |-> "returned", status |-> st]

\* _parse_response, lines 216-229: raise_for_status raises
\* ClientResponseError for a status of 400 and above, otherwise the body is
\* returned
_parse_response(st) ==
    IF st >= 400 THEN [kind |-> "ClientResponseError", status |-> st]
    ELSE [kind |-> "returned", status |-> st]

\* request(), lines 179-184: the held token is read; without one the
\* coroutine logs in first
transport_request(r) ==
    /\ tr_pc[r] = "idle"
    /\ IF Falsy(get_session_token)
       THEN /\ tr_pc' = [tr_pc EXCEPT ![r] = "login"]
            /\ UNCHANGED tr_hdr
       ELSE /\ tr_pc' = [tr_pc EXCEPT ![r] = "send"]
            /\ tr_hdr' = [tr_hdr EXCEPT ![r] = get_session_token]
    /\ UNCHANGED <<t_session_token, t_logins, tr_sent, tr_resp, tr_relogins,
                   tr_new, tr_result, transportWsVars>>

\* authenticate(), lines 120-161, as called at line 184: the token of the
\* response is stored in the session handler and returned, or the call
\* raises (raise_for_status, no sessionToken) and request() with it
TransportFirstLogin(r, ok) ==
    /\ tr_pc[r] = "login"
    /\ t_logins < MaxTransportLogins
    /\ t_logins' = t_logins + 1
    /\ IF ok
       THEN /\ t_session_token' = t_logins + 1
            /\ tr_hdr' = [tr_hdr EXCEPT ![r] = t_logins + 1]
            /\ tr_pc' = [tr_pc EXCEPT ![r] = "send"]
            /\ UNCHANGED tr_result
       ELSE /\ tr_pc' = [tr_pc EXCEPT ![r] = "done"]
            /\ tr_result' = [tr_result EXCEPT
                               ![r] = [kind |-> "LoginError", status |-> 0]]
            /\ UNCHANGED <<t_session_token, tr_hdr>>
    /\ UNCHANGED <<tr_sent, tr_resp, tr_relogins, tr_new, transportWsVars>>

\* lines 199-211 and 213: the request is sent with the X-Auth-Token header
\* and answered with status st; a 401 leads to authenticate(), any other
\* answer goes to _parse_response
TransportSend(r, st) ==
    /\ tr_pc[r] = "send"
    /\ tr_sent' = [tr_sent EXCEPT ![r] = Append(@, tr_hdr[r])]
    /\ tr_resp' = [tr_resp EXCEPT ![r] = Append(@, st)]
    /\ IF st = 401
       THEN /\ tr_pc' = [tr_pc EXCEPT ![r] = "relogin"]
            /\ UNCHANGED tr_result
       ELSE /\ tr_pc' = [tr_pc EXCEPT ![r] = "done"]
            /\ tr_result' = [tr_result EXCEPT ![r] = _parse_response(st)]
    /\ UNCHANGED <<t_session_token, t_logins, tr_hdr, tr_relogins, tr_new,
                   transportWsVars>>

\* lines 201-207: authenticate() after the 401; its token replaces the
\* header, or its exception ends request()
TransportRelogin(r, ok) ==
    /\ tr_pc[r] = "relogin"
    /\ t_logins < MaxTransportLogins
    /\ t_logins' = t_logins + 1
    /\ tr_relogins' = [tr_relogins EXCEPT ![r] = @ + 1]
    /\ IF ok
       THEN /\ t_session_token' = t_logins + 1
            /\ tr_hdr' = [tr_hdr EXCEPT ![r] = t_logins + 1]
            /\ tr_new' = [tr_new EXCEPT ![r] = t_logins + 1]
            /\ tr_pc' = [tr_pc EXCEPT ![r] = "resend"]
            /\ UNCHANGED tr_result
       ELSE /\ tr_pc' = [tr_pc EXCEPT ![r] = "done"]
            /\ tr_result' = [tr_result EXCEPT
                               ![r] = [kind |-> "LoginError", status |-> 0]]
            /\ UNCHANGED <<t_session_token, tr_hdr, tr_new>>
    /\ UNCHANGED <<tr_sent, tr_resp, transportWsVars>>

\* lines 209-211: the request is sent again and whatever answers it goes
\* to _parse_response
TransportResend(r, st) ==
    /\ tr_pc[r] = "resend"
    /\ tr_sent' = [tr_sent EXCEPT ![r] = Append(@, tr_hdr[r])]
    /\ tr_resp' = [tr_resp EXCEPT ![r] = Append(@, st)]
    /\ tr_pc' = [tr_pc EXCEPT ![r] = "done"]
    /\ tr_result' = [tr_result EXCEPT ![r] = _parse_response(st)]
    /\ UNCHANGED <<t_session_token, t_logins, tr_hdr, tr_relogins, tr_new,
                   transportWsVars>>

(***************************************************************************)
(* RetryConfig (utils.py)                                                  *)
(*                                                                         *)
(* Delays are counted in tenths of a second.  The HTTP client and the push *)
(* client build RetryConfig(max_retries, base_delay) from their            *)
(* configuration (http.py:55-58, push.py:72-75), so backoff_factor is 2.0, *)
(* max_delay 60.0 and jitter True; base_delay is 0.3 or 0.5 by default.    *)
(* The retry loops call calculate_delay(attempt) for attempt 0, 1, 2, ...  *)
(* up to max_retries, which the configuration does not limit.              *)
(***************************************************************************)
\* the attempts of the longest retry loop of the model
MaxAttempt == 1025
\* max_delay, in tenths of a second (utils.py:343)
max_delay == 600
\* backoff_factor (utils.py:344)
backoff_factor == 2
\* base_delay, in tenths of a second: the defaults of HTTPConfig and
\* WebSocketConfig (models.py:431, 440)
BaseDelays == {3, 5}
\* random.uniform(0, delay) = delay * random(): the draws of random(), in halves
JitterDraws == {0, 1, 2}
\* the largest n for which the float 2.0 ** n exists: one more and Python
\* raises OverflowError
MaxFloatExponent == 1023
\* beyond this value a power is not told from a larger one: with any base
\* delay of the model it is past max_delay
PowerCap == 1024
\* the exponent from which a power of backoff_factor is PowerCap or more
PowerCapExponent == 10
OverflowError == 0 - 2

\* backoff_factor ** attempt, as far as min(..., max_delay) can tell
RECURSIVE Power(_)
Power(n) ==
    IF n = 0 THEN 1
    ELSE IF n >= PowerCapExponent THEN PowerCap
    ELSE backoff_factor * Power(n - 1)

\* calculate_delay, line 372: base_delay * (backoff_factor ** attempt)
Uncapped(base, n) ==
    IF n > MaxFloatExponent THEN OverflowError ELSE base * Power(n)

\* calculate_delay, line 373: min(delay, max_delay)
Unjittered(base, n) ==
    IF Uncapped(base, n) = OverflowError THEN OverflowError
    ELSE Min(Uncapped(base, n), max_delay)

\* calculate_delay, lines 375-379: full jitter; u is the draw, in halves
calculate_delay(base, n, u) ==
    IF Unjittered(base, n) = OverflowError THEN OverflowError
    ELSE (Unjittered(base, n) * u) \div 2

(***************************************************************************)
(* Event handlers: DXtradePushClient.on / off / _dispatch_event            *)
(* (push.py:388-404, 522-558) and DXTradeStreamManager.on / off / emit     *)
(* (stream_manager.py:138-164), for one event type.  A handler is a        *)
(* function of the caller; its body may call on() and off() of the client  *)
(* it is registered with.  The caller registers a handler at most once.    *)
(***************************************************************************)
\* the handler functions of the caller, and the longest list of a run
MaxHandlers == 3
MaxRegistered == 4
HandlerIds == 1..MaxHandlers
EmitterClasses == {"DXtradePushClient", "DXTradeStreamManager"}

\* what the body of a handler does: nothing, on(event, h), off(event, h) or
\* off(event)
HandlerOps == {<<"none", 0>>, <<"off_all", 0>>}
                  \cup {<<k, h>> : k \in {"on", "off"}, h \in HandlerIds}

Registered(list) == {list[i] : i \in 1..Len(list)}

\* list.remove(h) guarded by "except ValueError" (push.py:554-557) or by
\* "if handler in" (stream_manager.py:153-154): the first occurrence goes
RemoveFirst(list, h) ==
    IF h \notin Registered(list) THEN list
    ELSE LET i == CHOOSE k \in 1..Len(list) :
                      list[k] = h /\ \A q \in 1..(k - 1) : list[q] # h
         IN SubSeq(list, 1, i - 1) \o SubSeq(list, i + 1, Len(list))

\* the registered list after on / off (push.py:533-557,
\* stream_manager.py:139-154)
RegistryAfter(list, op) ==
    IF op[1] = "on" THEN Append(list, op[2])
    ELSE IF op[1] = "off" THEN RemoveFirst(list, op[2])
    ELSE IF op[1] = "off_all" THEN <<>>
    ELSE list

\* off(event) of the stream manager binds a new list (stream_manager.py:150);
\* every other call changes the registered list in place (push.py:536, 553,
\* 555, stream_manager.py:142, 154)
Rebinds(class, op) == class = "DXTradeStreamManager" /\ op[1] = "off_all"

DispatchInit ==
    /\ d_class = "DXtradePushClient"
    /\ d_registry = <<>>
    /\ d_iter = <<>>
    /\ d_shared = FALSE
    /\ d_pos = 0
    /\ d_start = <<>>
    /\ d_calls = [h \in HandlerIds |-> 0]
    /\ d_pc = "idle"

\* the caller calls on(event, h) or off(event, h) while no dispatch runs
CallerRegisters(op) ==
    /\ d_pc = "idle"
    /\ op[1] = "on" => op[2] \notin Registered(d_registry)
    /\ op[1] = "off" => op[2] \in Registered(d_registry)
    /\ op[1] \in {"on", "off"}
    /\ d_registry' = RegistryAfter(d_registry, op)
    /\ UNCHANGED <<d_class, d_iter, d_shared, d_pos, d_start, d_calls, d_pc>>

\* _dispatch_event, lines 395-398, and emit, lines 158-159: the loop over
\* the registered list starts
DispatchStart ==
    /\ d_pc = "idle"
    /\ d_pc' = "iter"
    /\ d_iter' = d_registry
    /\ d_shared' = TRUE
    /\ d_pos' = 0
    /\ d_start' = d_registry
    /\ UNCHANGED <<d_class, d_registry, d_calls>>

\* one turn of the loop (push.py:398-404, stream_manager.py:159-163): the
\* iterator yields the entry at its index and moves on, the handler is
\* called, and its body does op
HandlerCall(op) ==
    /\ d_pc = "iter"
    /\ d_pos < Len(d_iter)
    /\ op[1] = "on" => Len(d_registry) < MaxRegistered
    /\ d_calls' = [d_calls EXCEPT ![d_iter[d_pos + 1]] = @ + 1]
    /\ d_pos' = d_pos + 1
    /\ d_registry' = RegistryAfter(d_registry, op)
    /\ d_shared' = (d_shared /\ ~Rebinds(d_class, op))
    /\ d_iter' = IF d_shared /\ ~Rebinds(d_class, op)
                 THEN RegistryAfter(d_registry, op)
                 ELSE d_iter
    /\ UNCHANGED <<d_class, d_start, d_pc>>

\* the iterator is exhausted and the dispatch returns
DispatchEnd ==
    /\ d_pc = "iter"
    /\ d_pos >= Len(d_iter)
    /\ d_pc' = "done"
    /\ UNCHANGED <<d_class, d_registry, d_iter, d_shared, d_pos, d_start,
                   d_calls>>

RetryInit ==
    /\ rt_base = 3
    /\ rt_attempt = None
    /\ rt_prev = None
    /\ rt_cur = None
    /\ rt_delay = None
    /\ DispatchInit

\* one turn of a retry loop (http.py:222, push.py:473): the delay of the
\* next attempt number is calculated; the exception of the calculation
\* ends the loop
RetryTurn(u) ==
    LET n == rt_attempt + 1 IN
    /\ n <= MaxAttempt
    /\ rt_cur # OverflowError
    /\ rt_attempt' = n
    /\ rt_prev' = rt_cur
    /\ rt_cur' = Unjittered(rt_base, n)
    /\ rt_delay' = calculate_delay(rt_base, n, u)
    /\ UNCHANGED <<rt_base, dispatchVars>>

(***************************************************************************)
(* Specifications                                                          *)
(***************************************************************************)
\* the session handler alone: the other components stay as constructed
InitAuth ==
    /\ now = StartTime
    /\ AuthInit
    /\ rl_rate = 1 /\ rl_burst = 1 /\ RateInit
    /\ h_limited = FALSE /\ HttpInit
    /\ PushInit
    /\ StreamInit
    /\ TransportInit
    /\ RetryInit

\* RateLimiter(rate, burst) for the rates and capacities of the bounds
InitRate ==
    /\ now = StartTime
    /\ AuthInit
    /\ rl_rate \in 1..MaxRate /\ rl_burst \in 1..MaxBurst /\ RateInit
    /\ h_limited = FALSE /\ HttpInit
    /\ PushInit
    /\ StreamInit
    /\ TransportInit
    /\ RetryInit

\* DXtradeHTTPClient.__init__, http.py:49-58: no limiter, or
\* RateLimiter(config.rate_limit), whose burst is its rate
InitHttp ==
    /\ now = StartTime
    /\ AuthInit
    /\ h_limited \in BOOLEAN
    /\ rl_rate \in (IF h_limited THEN 1..MaxRate ELSE {1})
    /\ rl_burst = rl_rate /\ RateInit
    /\ HttpInit
    /\ PushInit
    /\ StreamInit
    /\ TransportInit
    /\ RetryInit

NextAuth ==
    \/ \E c \in Callers : authenticate(c) /\ UNCHANGED <<rateVars, rateGhost, httpVars, pushVars, streamVars, transportVars, retryVars>>
    \/ \E c \in Callers : \E o \in {"ok", "no_token", "http_error"} :
          _refresh_session_token(c, o) /\ UNCHANGED <<rateVars, rateGhost, httpVars, pushVars, streamVars, transportVars, retryVars>>
    \/ \E c \in Callers : AuthReturn(c) /\ UNCHANGED <<rateVars, rateGhost, httpVars, pushVars, streamVars, transportVars, retryVars>>
    \/ AuthTick /\ UNCHANGED <<rateVars, rateGhost, httpVars, pushVars, streamVars, transportVars, retryVars>>

NextRate ==
    \/ RateAcquire /\ UNCHANGED <<pushVars, streamVars, transportVars, retryVars>>
    \/ RateTick /\ UNCHANGED <<pushVars, streamVars, transportVars, retryVars>>

NextHttp ==
    \/ \E r \in Reqs : \E m \in Methods : \E k \in ExplicitKeys \cup {None} :
          request(r, m, k) /\ UNCHANGED <<pushVars, streamVars, transportVars, retryVars>>
    \/ \E r \in Reqs : \E a \in BOOLEAN : HttpAttempt(r, a) /\ UNCHANGED <<pushVars, streamVars, transportVars, retryVars>>
    \/ \E r \in Reqs : \E st \in Statuses : HttpStatus(r, st, "absent") /\ UNCHANGED <<pushVars, streamVars, transportVars, retryVars>>
    \/ \E r \in Reqs : \E e \in TransportErrors :
          HttpTransportError(r, e) /\ UNCHANGED <<pushVars, streamVars, transportVars, retryVars>>
    \/ \E r \in Reqs : HttpWake(r) /\ UNCHANGED <<pushVars, streamVars, transportVars, retryVars>>
    \/ \E r \in Reqs : HttpDone(r) /\ UNCHANGED <<pushVars, streamVars, transportVars, retryVars>>
    \/ HttpTick /\ UNCHANGED <<pushVars, streamVars, transportVars, retryVars>>

\* the push client alone
InitPush ==
    /\ now = StartTime
    /\ AuthInit
    /\ rl_rate = 1 /\ rl_burst = 1 /\ RateInit
    /\ h_limited = FALSE /\ HttpInit
    /\ PushInit
    /\ StreamInit
    /\ TransportInit
    /\ RetryInit

NextPush ==
    \/ UserConnect /\ UNCHANGED <<restVars, streamVars, transportVars, retryVars>>
    \/ \E f \in Filters : subscribe_prices(f) /\ UNCHANGED <<restVars, streamVars, transportVars, retryVars>>
    \/ \E i \in SubIds : unsubscribe(i) /\ UNCHANGED <<restVars, streamVars, transportVars, retryVars>>
    \/ disconnect /\ UNCHANGED <<restVars, streamVars, transportVars, retryVars>>
    \/ DisconnectClose /\ UNCHANGED <<restVars, streamVars, transportVars, retryVars>>
    \/ DisconnectDone /\ UNCHANGED <<restVars, streamVars, transportVars, retryVars>>
    \/ \E t \in ConnThreads : ConnectOk(t) /\ UNCHANGED <<restVars, streamVars, transportVars, retryVars>>
    \/ \E t \in ConnThreads : ConnectFail(t) /\ UNCHANGED <<restVars, streamVars, transportVars, retryVars>>
    \/ \E t \in ConnThreads : ResubStep(t) /\ UNCHANGED <<restVars, streamVars, transportVars, retryVars>>
    \/ \E g \in Socks : RecvLoop(g) /\ UNCHANGED <<restVars, streamVars, transportVars, retryVars>>
    \/ \E g \in Socks : \E ty \in FrameTypes :
          Len(p_queue) < MaxQueue /\ RecvMessage(g, ty) /\ UNCHANGED <<restVars, streamVars, transportVars, retryVars>>
    \/ \E g \in Socks : RecvClosed(g) /\ UNCHANGED <<restVars, streamVars, transportVars, retryVars>>
    \/ \E g \in Socks : MonitorStep(g) /\ UNCHANGED <<restVars, streamVars, transportVars, retryVars>>
    \/ \E t \in Reconnectors : ReconnectWake(t) /\ UNCHANGED <<restVars, streamVars, transportVars, retryVars>>
    \/ \E g \in Socks : HeartbeatStep(g) /\ UNCHANGED <<restVars, streamVars, transportVars, retryVars>>
    \/ \E g \in Socks : ProcessorGet(g) /\ UNCHANGED <<restVars, streamVars, transportVars, retryVars>>
    \/ \E g \in Socks : ProcessorTimeout(g) /\ UNCHANGED <<restVars, streamVars, transportVars, retryVars>>
    \/ \E s \in Socks : SocketDrop(s) /\ UNCHANGED <<restVars, streamVars, transportVars, retryVars>>
    \/ HeartbeatLapse /\ UNCHANGED <<restVars, streamVars, transportVars, retryVars>>

\* the stream manager alone
InitStream ==
    /\ now = StartTime
    /\ AuthInit
    /\ rl_rate = 1 /\ rl_burst = 1 /\ RateInit
    /\ h_limited = FALSE /\ HttpInit
    /\ PushInit
    /\ StreamInit
    /\ TransportInit
    /\ RetryInit

NextStream ==
    \/ StreamConnect /\ UNCHANGED <<restVars, pushVars, transportVars, retryVars>>
    \/ \E c \in ConnTypes : CallerConnectOk(c) /\ UNCHANGED <<restVars, pushVars, transportVars, retryVars>>
    \/ \E c \in ConnTypes : \E cb \in CallbackEnds :
          CallerConnectFail(c, cb) /\ UNCHANGED <<restVars, pushVars, transportVars, retryVars>>
    \/ \E s \in StreamSocks : \E k \in FrameKinds : \E bad \in Raisers :
          StreamRecv(s, k, bad) /\ UNCHANGED <<restVars, pushVars, transportVars, retryVars>>
    \/ \E s \in StreamSocks : \E code \in {"closed_ok", "closed_error"} :
          StreamDrop(s, code) /\ UNCHANGED <<restVars, pushVars, transportVars, retryVars>>
    \/ \E s \in StreamSocks : HandlerClosed(s) /\ UNCHANGED <<restVars, pushVars, transportVars, retryVars>>
    \/ \E ch \in StreamSocks : ReconnectTimerFires(ch) /\ UNCHANGED <<restVars, pushVars, transportVars, retryVars>>
    \/ \E ch \in StreamSocks : ReconnectOk(ch) /\ UNCHANGED <<restVars, pushVars, transportVars, retryVars>>
    \/ \E ch \in StreamSocks : \E cb \in CallbackEnds :
          ReconnectFail(ch, cb) /\ UNCHANGED <<restVars, pushVars, transportVars, retryVars>>
    \/ StreamDisconnect /\ UNCHANGED <<restVars, pushVars, transportVars, retryVars>>
    \/ \E s \in StreamSocks : \E code \in {"closed_ok", "closed_error"} :
          StreamCloseDone(s, code) /\ UNCHANGED <<restVars, pushVars, transportVars, retryVars>>
    \/ StreamDisconnectEnd /\ UNCHANGED <<restVars, pushVars, transportVars, retryVars>>

\* the transport alone
InitTransport ==
    /\ now = StartTime
    /\ AuthInit
    /\ rl_rate = 1 /\ rl_burst = 1 /\ RateInit
    /\ h_limited = FALSE /\ HttpInit
    /\ PushInit
    /\ StreamInit
    /\ TransportInit
    /\ RetryInit

NextTransport ==
    \/ \E ch \in Channels : subscribe(ch) /\ UNCHANGED <<restVars, pushVars, streamVars, treqVars, retryVars>>
    \/ \E t \in TransportTasks : _websocket_handler(t) /\ UNCHANGED <<restVars, pushVars, streamVars, treqVars, retryVars>>
    \/ \E t \in TransportTasks : \E ok \in BOOLEAN :
          TransportLogin(t, ok) /\ UNCHANGED <<restVars, pushVars, streamVars, treqVars, retryVars>>
    \/ \E t \in TransportTasks : \E ok \in BOOLEAN :
          HandlerConnected(t, ok) /\ UNCHANGED <<restVars, pushVars, streamVars, treqVars, retryVars>>
    \/ \E t \in TransportTasks : \E k \in TransportFrames : \E sent \in BOOLEAN :
          TransportRecv(t, k, sent) /\ UNCHANGED <<restVars, pushVars, streamVars, treqVars, retryVars>>
    \/ \E t \in TransportTasks : TransportSocketLost(t) /\ UNCHANGED <<restVars, pushVars, streamVars, treqVars, retryVars>>
    \/ \E ch \in Channels : transport_unsubscribe(ch) /\ UNCHANGED <<restVars, pushVars, streamVars, treqVars, retryVars>>

SpecAuth == InitAuth /\ [][NextAuth]_vars
SpecRate == InitRate /\ [][NextRate]_vars
SpecHttp == InitHttp /\ [][NextHttp]_vars
SpecPush == InitPush /\ [][NextPush]_vars
SpecStream == InitStream /\ [][NextStream]_vars
SpecTransport == InitTransport /\ [][NextTransport]_vars

\* the HTTP client without a rate limiter, whose caller passes no key, and
\* a server that sends a Date header
InitHttpDate ==
    /\ now = StartTime
    /\ AuthInit
    /\ h_limited = FALSE
    /\ rl_rate = 1 /\ rl_burst = 1 /\ RateInit
    /\ HttpInit
    /\ PushInit
    /\ StreamInit
    /\ TransportInit
    /\ RetryInit

NextHttpDate ==
    \/ \E r \in Reqs : \E m \in Methods :
          request(r, m, None) /\ UNCHANGED <<pushVars, streamVars, transportVars, retryVars>>
    \/ \E r \in Reqs : HttpAttempt(r, TRUE) /\ UNCHANGED <<pushVars, streamVars, transportVars, retryVars>>
    \/ \E r \in Reqs : \E st \in Statuses : \E dr \in DateHeaders :
          HttpStatus(r, st, dr) /\ UNCHANGED <<pushVars, streamVars, transportVars, retryVars>>
    \/ \E r \in Reqs : \E e \in TransportErrors :
          HttpTransportError(r, e) /\ UNCHANGED <<pushVars, streamVars, transportVars, retryVars>>
    \/ \E r \in Reqs : HttpWake(r) /\ UNCHANGED <<pushVars, streamVars, transportVars, retryVars>>
    \/ \E r \in Reqs : HttpDone(r) /\ UNCHANGED <<pushVars, streamVars, transportVars, retryVars>>

SpecHttpDate == InitHttpDate /\ [][NextHttpDate]_vars

\* the HTTP client without a rate limiter, whose caller passes a key with
\* every request, and a server that answers with the statuses around the
\* limits of lines 199 and 203 and sends no Date header
CacheStatuses == {200, 204, 299, 300, 304, 400, 404, 500}

NextHttpCache ==
    \/ \E r \in Reqs : \E m \in Methods : \E k \in ExplicitKeys :
          request(r, m, k) /\ UNCHANGED <<pushVars, streamVars, transportVars, retryVars>>
    \/ \E r \in Reqs : \E authOk \in BOOLEAN :
          HttpAttempt(r, authOk) /\ UNCHANGED <<pushVars, streamVars, transportVars, retryVars>>
    \/ \E r \in Reqs : \E st \in CacheStatuses :
          HttpStatus(r, st, "absent") /\ UNCHANGED <<pushVars, streamVars, transportVars, retryVars>>
    \/ \E r \in Reqs : \E e \in TransportErrors :
          HttpTransportError(r, e) /\ UNCHANGED <<pushVars, streamVars, transportVars, retryVars>>
    \/ \E r \in Reqs : HttpWake(r) /\ UNCHANGED <<pushVars, streamVars, transportVars, retryVars>>
    \/ \E r \in Reqs : HttpDone(r) /\ UNCHANGED <<pushVars, streamVars, transportVars, retryVars>>
    \/ HttpTick /\ UNCHANGED <<pushVars, streamVars, transportVars, retryVars>>

SpecHttpCache == InitHttpDate /\ [][NextHttpCache]_vars

\* the session handler whose owner also logs out
NextLogout ==
    \/ NextAuth
    \/ logout /\ UNCHANGED <<rateVars, rateGhost, httpVars, pushVars, streamVars, transportVars, retryVars>>
    \/ \E o \in LogoutOutcomes : LogoutEnd(o) /\ UNCHANGED <<rateVars, rateGhost, httpVars, pushVars, streamVars, transportVars, retryVars>>

SpecLogout == InitAuth /\ [][NextLogout]_vars

\* the requests of the transport
NextTransportRest ==
    \/ \E r \in TransportReqs : transport_request(r) /\ UNCHANGED <<restVars, pushVars, streamVars, retryVars>>
    \/ \E r \in TransportReqs : \E ok \in BOOLEAN :
          TransportFirstLogin(r, ok) /\ UNCHANGED <<restVars, pushVars, streamVars, retryVars>>
    \/ \E r \in TransportReqs : \E st \in TransportStatuses :
          TransportSend(r, st) /\ UNCHANGED <<restVars, pushVars, streamVars, retryVars>>
    \/ \E r \in TransportReqs : \E ok \in BOOLEAN :
          TransportRelogin(r, ok) /\ UNCHANGED <<restVars, pushVars, streamVars, retryVars>>
    \/ \E r \in TransportReqs : \E st \in TransportStatuses :
          TransportResend(r, st) /\ UNCHANGED <<restVars, pushVars, streamVars, retryVars>>

SpecTransportRest == InitTransport /\ [][NextTransportRest]_vars

\* the life cycle of the stream manager: the caller also adds symbols and
\* destroys the manager, and the server sends no frames
NextStreamLife ==
    \/ StreamConnect /\ UNCHANGED <<restVars, pushVars, transportVars, retryVars>>
    \/ \E c \in ConnTypes : CallerConnectOk(c) /\ UNCHANGED <<restVars, pushVars, transportVars, retryVars>>
    \/ \E c \in ConnTypes : CallerConnectFail(c, "returns") /\ UNCHANGED <<restVars, pushVars, transportVars, retryVars>>
    \/ \E y \in SUBSET ExtraSymbols \ {{}} :
          subscribe_to_market_data(y) /\ UNCHANGED <<restVars, pushVars, transportVars, retryVars>>
    \/ \E s \in StreamSocks : \E code \in {"closed_ok", "closed_error"} :
          StreamDrop(s, code) /\ UNCHANGED <<restVars, pushVars, transportVars, retryVars>>
    \/ \E s \in StreamSocks : HandlerClosed(s) /\ UNCHANGED <<restVars, pushVars, transportVars, retryVars>>
    \/ \E ch \in StreamSocks : ReconnectTimerFires(ch) /\ UNCHANGED <<restVars, pushVars, transportVars, retryVars>>
    \/ \E ch \in StreamSocks : ReconnectOk(ch) /\ UNCHANGED <<restVars, pushVars, transportVars, retryVars>>
    \/ \E ch \in StreamSocks : ReconnectFail(ch, "returns") /\ UNCHANGED <<restVars, pushVars, transportVars, retryVars>>
    \/ StreamDisconnect /\ UNCHANGED <<restVars, pushVars, transportVars, retryVars>>
    \/ \E s \in StreamSocks : \E code \in {"closed_ok", "closed_error"} :
          StreamCloseDone(s, code) /\ UNCHANGED <<restVars, pushVars, transportVars, retryVars>>
    \/ StreamDisconnectEnd /\ UNCHANGED <<restVars, pushVars, transportVars, retryVars>>
    \/ destroy /\ UNCHANGED <<restVars, pushVars, transportVars, retryVars>>
    \/ DestroyDisconnect /\ UNCHANGED <<restVars, pushVars, transportVars, retryVars>>
    \/ DestroyDisconnectEnd /\ UNCHANGED <<restVars, pushVars, transportVars, retryVars>>
    \/ ConnectDestroyed /\ UNCHANGED <<restVars, pushVars, transportVars, retryVars>>

SpecStreamLife == InitStream /\ [][NextStreamLife]_vars

\* a retry loop of the HTTP client or of the push client
InitRetry ==
    /\ now = StartTime
    /\ AuthInit
    /\ rl_rate = 1 /\ rl_burst = 1 /\ RateInit
    /\ h_limited = FALSE /\ HttpInit
    /\ PushInit
    /\ StreamInit
    /\ TransportInit
    /\ rt_base \in BaseDelays
    /\ rt_attempt = None
    /\ rt_prev = None
    /\ rt_cur = None
    /\ rt_delay = None
    /\ DispatchInit

NextRetry ==
    \E u \in JitterDraws :
        RetryTurn(u) /\ UNCHANGED <<restVars, pushVars, streamVars, transportVars>>

SpecRetry == InitRetry /\ [][NextRetry]_vars

\* the push client whose caller connects and then listens, with a server
\* that sends frames of every type at any pace while time passes
InitPushInbound == InitPush

NextPushInbound ==
    \/ UserConnect /\ UNCHANGED <<restVars, streamVars, transportVars, retryVars>>
    \/ \E t \in ConnThreads : ConnectOk(t) /\ UNCHANGED <<restVars, streamVars, transportVars, retryVars>>
    \/ \E t \in ConnThreads : ConnectFail(t) /\ UNCHANGED <<restVars, streamVars, transportVars, retryVars>>
    \/ \E g \in Socks : RecvLoop(g) /\ UNCHANGED <<restVars, streamVars, transportVars, retryVars>>
    \/ \E g \in Socks : \E ty \in InboundTypes :
          RecvMessage(g, ty) /\ UNCHANGED <<restVars, streamVars, transportVars, retryVars>>
    \/ \E g \in Socks : RecvPut(g) /\ UNCHANGED <<restVars, streamVars, transportVars, retryVars>>
    \/ \E g \in Socks : MonitorStep(g) /\ UNCHANGED <<restVars, streamVars, transportVars, retryVars>>
    \/ \E t \in Reconnectors : ReconnectWake(t) /\ UNCHANGED <<restVars, streamVars, transportVars, retryVars>>
    \/ \E g \in Socks : HeartbeatStep(g) /\ UNCHANGED <<restVars, streamVars, transportVars, retryVars>>
    \/ \E g \in Socks : ProcessorGet(g) /\ UNCHANGED <<restVars, streamVars, transportVars, retryVars>>
    \/ PushTick /\ UNCHANGED <<restVars, streamVars, transportVars, retryVars>>

SpecPushInbound == InitPushInbound /\ [][NextPushInbound]_vars

\* the push client whose caller connects, disconnects and connects once
\* more, without subscriptions
InitPushAgain == InitPush

NextPushAgain ==
    \/ UserConnect /\ UNCHANGED <<restVars, streamVars, transportVars, retryVars>>
    \/ ConnectAgain /\ UNCHANGED <<restVars, streamVars, transportVars, retryVars>>
    \/ disconnect /\ UNCHANGED <<restVars, streamVars, transportVars, retryVars>>
    \/ DisconnectClose /\ UNCHANGED <<restVars, streamVars, transportVars, retryVars>>
    \/ DisconnectDone /\ UNCHANGED <<restVars, streamVars, transportVars, retryVars>>
    \/ \E t \in ConnThreads : ConnectOk(t) /\ UNCHANGED <<restVars, streamVars, transportVars, retryVars>>
    \/ \E t \in ConnThreads : ConnectFail(t) /\ UNCHANGED <<restVars, streamVars, transportVars, retryVars>>
    \/ \E g \in Socks : RecvLoop(g) /\ UNCHANGED <<restVars, streamVars, transportVars, retryVars>>
    \/ \E g \in Socks : \E ty \in FrameTypes :
          Len(p_queue) < MaxQueue /\ RecvMessage(g, ty) /\ UNCHANGED <<restVars, streamVars, transportVars, retryVars>>
    \/ \E g \in Socks : RecvClosed(g) /\ UNCHANGED <<restVars, streamVars, transportVars, retryVars>>
    \/ \E g \in Socks : MonitorStep(g) /\ UNCHANGED <<restVars, streamVars, transportVars, retryVars>>
    \/ \E t \in Reconnectors : ReconnectWake(t) /\ UNCHANGED <<restVars, streamVars, transportVars, retryVars>>
    \/ \E g \in Socks : HeartbeatStep(g) /\ UNCHANGED <<restVars, streamVars, transportVars, retryVars>>
    \/ \E g \in Socks : ProcessorGet(g) /\ UNCHANGED <<restVars, streamVars, transportVars, retryVars>>
    \/ \E g \in Socks : ProcessorTimeout(g) /\ UNCHANGED <<restVars, streamVars, transportVars, retryVars>>
    \/ \E s \in Socks : SocketDrop(s) /\ UNCHANGED <<restVars, streamVars, transportVars, retryVars>>
    \/ HeartbeatLapse /\ UNCHANGED <<restVars, streamVars, transportVars, retryVars>>

SpecPushAgain == InitPushAgain /\ [][NextPushAgain]_vars

\* one dispatch of an event by a push client or by a stream manager
InitDispatch ==
    /\ now = StartTime
    /\ AuthInit
    /\ rl_rate = 1 /\ rl_burst = 1 /\ RateInit
    /\ h_limited = FALSE /\ HttpInit
    /\ PushInit
    /\ StreamInit
    /\ TransportInit
    /\ rt_base = 3 /\ rt_attempt = None /\ rt_prev = None
    /\ rt_cur = None /\ rt_delay = None
    /\ d_class \in EmitterClasses
    /\ d_registry = <<>>
    /\ d_iter = <<>>
    /\ d_shared = FALSE
    /\ d_pos = 0
    /\ d_start = <<>>
    /\ d_calls = [h \in HandlerIds |-> 0]
    /\ d_pc = "idle"

NextDispatch ==
    \/ \E op \in HandlerOps : CallerRegisters(op) /\ UNCHANGED <<restVars, pushVars, streamVars, transportVars, rt_base, rt_attempt, rt_prev, rt_cur, rt_delay>>
    \/ DispatchStart /\ UNCHANGED <<restVars, pushVars, streamVars, transportVars, rt_base, rt_attempt, rt_prev, rt_cur, rt_delay>>
    \/ \E op \in HandlerOps : HandlerCall(op) /\ UNCHANGED <<restVars, pushVars, streamVars, transportVars, rt_base, rt_attempt, rt_prev, rt_cur, rt_delay>>
    \/ DispatchEnd /\ UNCHANGED <<restVars, pushVars, streamVars, transportVars, rt_base, rt_attempt, rt_prev, rt_cur, rt_delay>>

SpecDispatch == InitDispatch /\ [][NextDispatch]_vars

\* the transport whose caller makes one request and, once a token is held,
\* subscribes to the quotes channel, with a server that answers 401 and
\* sends ping requests
NextTransportToken ==
    \/ \E r \in {1} : transport_request(r) /\ UNCHANGED <<restVars, pushVars, streamVars, retryVars>>
    \/ \E r \in {1} : \E ok \in BOOLEAN :
          TransportFirstLogin(r, ok) /\ UNCHANGED <<restVars, pushVars, streamVars, retryVars>>
    \/ \E r \in {1} : \E st \in TransportStatuses :
          TransportSend(r, st) /\ UNCHANGED <<restVars, pushVars, streamVars, retryVars>>
    \/ \E r \in {1} : \E ok \in BOOLEAN :
          TransportRelogin(r, ok) /\ UNCHANGED <<restVars, pushVars, streamVars, retryVars>>
    \/ \E r \in {1} : \E st \in TransportStatuses :
          TransportResend(r, st) /\ UNCHANGED <<restVars, pushVars, streamVars, retryVars>>
    \/ \E ch \in {"quotes"} :
          get_session_token # None /\ subscribe(ch) /\ UNCHANGED <<restVars, pushVars, streamVars, treqVars, retryVars>>
    \/ \E t \in TransportTasks : _websocket_handler(t) /\ UNCHANGED <<restVars, pushVars, streamVars, treqVars, retryVars>>
    \/ \E t \in TransportTasks : \E ok \in BOOLEAN :
          HandlerConnected(t, ok) /\ UNCHANGED <<restVars, pushVars, streamVars, treqVars, retryVars>>
    \/ \E t \in TransportTasks : \E k \in TransportFrames : \E sent \in BOOLEAN :
          TransportRecv(t, k, sent) /\ UNCHANGED <<restVars, pushVars, streamVars, treqVars, retryVars>>

SpecTransportToken == InitTransport /\ [][NextTransportToken]_vars

(***************************************************************************)
(* Claims                                                                  *)
(***************************************************************************)

\* C1: authenticate calls made concurrently while no valid session token is
\* held issue one login POST in total (the others wait for the login in
\* flight): there are never two login POSTs in flight at once.
C1_OneLoginInFlight ==
    Cardinality({c \in Callers : apc[c] = "login_wait"}) <= 1

\* C5: once a request with idempotency key K has returned a 2xx response at
\* time t, a later request with key K issued before t + 3600 returns that same
\* response without any network send, and one issued at t + 3600 or later
\* performs a new network send.
C5_CachedUntilTtl ==
    \A r \in Reqs :
        (hpc[r] \in {"returned", "raised"} /\ h_exp[r].at # None) =>
            /\ (h_callAt[r] - h_exp[r].at < 3600) =>
                   (h_result[r] = h_exp[r].resp /\ h_net[r] = 0)
            /\ (h_callAt[r] - h_exp[r].at >= 3600) => h_net[r] >= 1

\* C6: after the latest successful login, at time t, an authenticate call made
\* in [t, t + 3300) issues no login and decorates the request with the cached
\* token, and one made at t + 3300 or later issues exactly one login.
C6_WindowOfReuse ==
    \A c \in Callers :
        (apc[c] # "idle" /\ a_okSeen[c] # None) =>
            /\ (a_callAt[c] < a_okSeen[c] + 3300) =>
                   (a_issued[c] = 0 /\ apc[c] = "done" /\ a_hdr[c] # None)
            /\ (a_callAt[c] >= a_okSeen[c] + 3300) => a_issued[c] = 1

\* C7: from a full bucket of capacity C, the first C acquire() calls made at
\* one instant succeed, the (C+1)th made at that instant is rejected, and the
\* first acquire() made at least 1/R seconds after that rejection succeeds.
C7_BurstThenRefill ==
    /\ (rl_kind = "burst" /\ rl_count <= rl_burst) => rl_result = "ok"
    /\ (rl_kind = "burst" /\ rl_count = rl_burst + 1) => rl_result = "rejected"
    /\ rl_kind = "after" => rl_result = "ok"

\* the (C+1)th acquire of a burst was rejected and the acquire made 1/R seconds
\* or more later has succeeded
C7_Witness ==
    /\ rl_kind = "after"
    /\ rl_result = "ok"
    /\ rl_tokens < rl_burst * TicksPerSecond

\* C2: after an unexpected drop and a successful reconnect, the new socket
\* has been sent exactly one subscribe message for every active subscription,
\* with its id and its symbol filter, and no other subscribe message.  Stated
\* on the socket a reconnect opened, once its replay has ended, while the
\* client is connected on it, the socket is open, no connect() or reconnect
\* is still running and no subscribe or unsubscribe call has followed.
C2_ReplayExactlyOnce ==
    (/\ p_replayed
     /\ p_connected
     /\ p_ws # None
     /\ sock_state[p_ws] = "open"
     /\ sock_by[p_ws] \in {"recv", "mon"}
     /\ Quiet)
    => \A m \in SubMsgs : sock_log[p_ws][m] = IF m \in ActiveMsgs THEN 1 ELSE 0

\* C8: for one outage in which every connect attempt fails, at most
\* max_retries connect attempts are made, whichever tasks detected it, and
\* none is made after the client has given up (_should_reconnect = False).
C8_BoundedReconnect ==
    /\ p_rcAttempts <= PushMaxRetries
    /\ ~p_lateAttempt

\* C10: when disconnect() has returned, every background task started for
\* the connection (receive loop, heartbeat sender, monitor, queue processor,
\* reconnect sleep) has terminated.
C10_TasksEndedAtDisconnect ==
    ppc[User] = "disconnected" => \A x \in Tasks : ppc[x] \in {"none", "done"}

\* C3: every PingRequest frame read from an open socket, in the object form
\* or as a bare string, whose callbacks return, is answered by exactly one
\* Ping reply, written to the
\* socket the request arrived on and carrying the session token.
C3_OneReplyPerPing ==
    (/\ sm_last.kind \in {"PingRequestObject", "PingRequestString"}
     /\ sm_last.raised = "none") =>
        /\ sm_last.replies = 1
        /\ sm_last.on = sm_last.from
        /\ sm_last.session = StreamToken

\* C4: a PingRequest frame is never delivered to the handlers of the generic
\* "message" event.
C4_PingSwallowed ==
    sm_last.kind \in {"PingRequestObject", "PingRequestString"} =>
        ~sm_last.message_event

\* C9: once disconnect() has returned, no reconnect is scheduled or running
\* and no socket is stored or open.
C9_NoReconnectAfterDisconnect ==
    cpc = "disconnected" =>
        /\ \A ch \in StreamSocks : rc_pc[ch] \notin {"sleep", "connecting"}
        /\ \A c \in ConnTypes : sm_ws[c] = None
        /\ \A s \in StreamSocks : ss_state[s] # "open"

\* the outcomes of the attempts request r has made so far, its last one, and
\* whether all before position n were timeouts
LastOutcome(r) == h_hist[r][Len(h_hist[r])]
TimeoutsBefore(r, n) == \A i \in 1..(n - 1) : h_hist[r][i].exc = "TimeoutException"

\* C11: an attempt that ends with a 5xx or 429 response is retried while
\* retries are left, so a request that raised on such a response has made
\* max_retries + 1 sends; an attempt that ends with another 4xx response is
\* the last send of its request.
C11_RetryByStatus ==
    \A r \in Reqs :
        /\ (hpc[r] = "raised" /\ h_hist[r] # <<>> /\ LastOutcome(r).status \in {429, 500})
              => h_sends[r] = HttpMaxRetries + 1
        /\ \A i \in 1..Len(h_hist[r]) : h_hist[r][i].status = 404 => i = Len(h_hist[r])

\* C12: when the last response of a request has status s >= 400, the
\* exception raised to the caller is a DXtradeRateLimitError with status 429
\* for s = 429, and otherwise a DXtradeHTTPError whose status_code is s.
C12_ErrorKeepsStatus ==
    \A r \in Reqs :
        (hpc[r] = "raised" /\ h_hist[r] # <<>> /\ LastOutcome(r).status >= 400) =>
            h_result[r] = Raised(StatusException(LastOutcome(r).status),
                                 LastOutcome(r).status)

ConnectReturned == cpc \in {"connected", "disconnecting", "disconnected"}

\* C14: connect() returns True only if every enabled connection connected;
\* if one of them failed it returns False, and on_error has been called for
\* each connection that failed.
C14_ConnectAllOrFalse ==
    ConnectReturned =>
        /\ sm_all_connected => \A c \in ConnTypes : sm_results[c] = "True"
        /\ \A c \in ConnTypes :
              sm_results[c] # "True" =>
                 /\ ~sm_all_connected
                 /\ \E e \in sm_on_error[c] : e.by = "connect"

\* C15: in every reachable state status.is_ready is true exactly when every
\* enabled connection has connected = true and subscribed = true.
C15_ReadyIffAllSubscribed ==
    sm_is_ready <=> (\A c \in ConnTypes : sm_connected[c] /\ sm_subscribed[c])

\* C16: while the automatic reconnection of a stream is in progress on_error
\* is not called for an attempt that failed; the reconnect code calls it
\* only once the attempts are exhausted.
C16_ErrorOnlyWhenExhausted ==
    \A c \in ConnTypes : \A e \in sm_on_error[c] :
        e.by \in {"do_reconnect", "_handle_reconnect"} =>
            e.attempts >= max_reconnect_attempts

\* C17: an exception raised by one of the callbacks and handlers registered
\* for a message keeps no other handler registered for that message from
\* being called, and does not stop the receive loop of the socket.
C17_HandlersIsolated ==
    /\ sm_last.kind = "MarketData" =>
          {"marketData_1", "marketData_2", "message"} \subseteq sm_last.invoked
    /\ \A s \in StreamSocks : ss_state[s] = "open" => hd_pc[s] = "iter"

\* C18: with no key from the caller, the key request() derives for a
\* mutating request is a function of (method, url, body).  Every request of
\* the model has the same url and body, and a key above NumKeys is one that
\* was derived for a POST: two such requests have the same key.
C18_DerivedKeyIsFingerprint ==
    \A r \in Reqs : \A q \in Reqs :
        (h_key[r] > NumKeys /\ h_key[q] > NumKeys) => h_key[r] = h_key[q]

\* C19: a request whose key has an unexpired cached response is answered
\* from the cache before the rate limiter is consulted: the call takes no
\* token and does not fail with a rate-limit error.
C19_CacheBeforeRateLimit ==
    [][\A r \in Reqs :
          (/\ hpc[r] = "idle" /\ hpc'[r] # "idle"
           /\ h_exp'[r].at # None
           /\ now - h_exp'[r].at < IdempotencyTtl) =>
              /\ rl_tokens' = rl_tokens
              /\ h_result'[r].kind # "DXtradeRateLimitError"]_vars

C21_ResubscribedAfterReconnect ==
    \A s \in StreamSocks :
        (sm_ws["market_data"] = s /\ ss_state[s] = "open")
            => sm_wanted \subseteq ss_sent[s]


\* C22: once destroy() has been called the manager is terminal: connect()
\* does not start connecting (it raises WebSocketError), no socket is
\* opened, and no do_reconnect task is scheduled or completes
C22_DestroyedIsTerminal ==
    [][sm_is_destroyed =>
          /\ cpc' \notin {"connecting", "connected"}
          /\ \A s \in StreamSocks :
                ss_state[s] = "unused" => ss_state'[s] = "unused"
          /\ \A ch \in StreamSocks :
                /\ rc_pc'[ch] = "sleep" => rc_pc[ch] = "sleep"
                /\ rc_pc'[ch] = "done" => rc_pc[ch] = "done"]_vars


\* C23: the subscription registry of the push client never holds an entry
\* whose active flag is False, whether unsubscribe returned or raised
C23_NoInactiveSubscription ==
    \A i \in SubIds : p_subs[i] # "inactive"


C26_DriftRaised ==
    \A r \in Reqs :
        (hpc[r] \in {"returned", "raised"} /\ h_date[r] = "beyond") =>
            h_result[r].kind = "DXtradeClockDriftError"


\* C27: every delay a retry loop calculates is a delay of at most
\* max_delay, and the delay before jitter of an attempt is at least that
\* of the attempt before it
C27_DelayBounded ==
    rt_attempt # None =>
        /\ rt_cur # OverflowError
        /\ rt_delay # OverflowError
        /\ rt_delay <= max_delay
        /\ rt_cur <= max_delay
        /\ rt_prev # None => rt_cur >= rt_prev

\* C28: in DXtradePushClient no inbound frame of a control type (heartbeat,
\* subscription_ack, error) is handed to a handler registered with on() or
\* yielded by events(): the event last passed to the handlers is never of a
\* control type.
C28_ControlConsumed == p_dispatched \notin ControlTypes

\* C29: the connection monitor enters _handle_reconnect for a heartbeat
\* timeout only when neither a heartbeat nor any other frame has been
\* received for more than 3 x heartbeat_interval (stated for the moments
\* when every frame received so far has been handled).
C29_TimeoutOnlyWhenSilent ==
    [][\A g \in Socks :
          (/\ ppc[MonT(g)] = "sleep" /\ ppc'[MonT(g)] = "rc_sleep"
           /\ p_queue = <<>> /\ \A q \in Socks : ppc[RecvT(q)] # "put")
              => /\ p_clock - p_hb_at > HeartbeatTimeout
                 /\ p_clock - p_msg_at > HeartbeatTimeout]_vars

\* C30: the receive loop never waits on the inbound queue: a frame that
\* arrives while the queue holds its maxsize is dropped and the loop is back
\* at recv().
C30_ReceiveNeverBlocks == \A g \in Socks : ppc[RecvT(g)] # "put"

\* the tasks of each kind that are running their loop
LiveRecv == {g \in Socks : ppc[RecvT(g)] \in {"recv", "put", "errsleep"}}
LiveHb == {g \in Socks : ppc[HbT(g)] = "sleep"}
LiveMon == {g \in Socks : ppc[MonT(g)] = "sleep"}
LiveProc == {g \in Socks : ppc[ProcT(g)] = "wait"}

\* C33: in DXtradePushClient at most one receive loop, one heartbeat sender
\* and one connection monitor are running at any time; the tasks started
\* for the previous socket do not go on beside those of the new one.
C33_OneTaskOfEachKind ==
    /\ Cardinality(LiveRecv) <= 1
    /\ Cardinality(LiveHb) <= 1
    /\ Cardinality(LiveMon) <= 1

\* the receive loops suspended in Queue.put with a frame they have received
BlockedPutters == {g \in Socks : ppc[RecvT(g)] = "put"}

\* C31: one task at most consumes the inbound queue, and frames enter the
\* queue (and so are dispatched) in the order they were received: a frame
\* is never queued while a frame received before it is still waiting to be
\* put.
C31_ArrivalOrder ==
    /\ [](Cardinality(LiveProc) <= 1)
    /\ [][(Len(p_queue') > Len(p_queue) /\ BlockedPutters # {})
              => BlockedPutters' # BlockedPutters]_vars

HandlersOf(ch) ==
    {t \in TransportTasks :
        tt_channel[t] = ch /\ tt_pc[t] \in {"start", "login", "connecting", "open"}}

\* C38: at most one WebSocket handler task exists per channel, and the socket
\* stored for a channel belongs to a task of that channel that has not ended.
C38_OneHandlerPerChannel ==
    \A ch \in Channels :
        /\ Cardinality(HandlersOf(ch)) <= 1
        /\ \A t \in HandlersOf(ch) :
              tt_pc[t] = "open" => t_websockets[ch] = t /\ t_subscriptions[ch]

\* C39: UnifiedWebSocketStream.is_connected() is true only while both
\* streams of its manager are connected.
C39_ConnectedMeansAll ==
    u_is_connected => \A c \in ConnTypes : sm_connected[c]

\* the sockets the server still holds open for this client
OpenSocks == {s \in Socks : sock_state[s] = "open"}

\* C34: the reconnects of the receive loop and of the monitor never leave
\* the client with two open sockets, and every socket that is still open is
\* the one the client holds (none is dropped unclosed).
C34_OneOpenSocket ==
    /\ Cardinality(OpenSocks) <= 1
    /\ \A s \in OpenSocks : p_ws = s

\* C35: once a connect() made after disconnect() has succeeded, the client
\* works again: a receive loop reads the socket it holds, the queue processor
\* runs, and the reconnect policy is armed.
C35_ConnectAgainWorks ==
    (p_env.again /\ ppc[User] = "idle" /\ p_connected /\ p_ws # None) =>
        /\ sock_state[p_ws] = "open" => \E g \in Socks : ppc[RecvT(g)] \in {"recv", "put", "errsleep"} /\ r_sock[g] = p_ws
        /\ p_processing
        /\ p_should_reconnect

\* C36: when a dispatch has returned, every handler that was registered
\* when it started has been called exactly once, whatever on() and off()
\* calls the handlers made meanwhile.
C36_EachHandlerOnce ==
    d_pc = "done" => \A h \in Registered(d_start) : d_calls[h] = 1

\* C40: every entry of the idempotency cache is a response with a status
\* of 200..299, and a request is never answered from the cache when the last
\* request with its key that ended had raised.
C40_OnlySuccessCached ==
    /\ [](\A k \in KeySpace :
             h_cache[k] # NoResp => h_cache[k].status \in 200..299)
    /\ [][\A r \in Reqs :
             (hpc[r] = "idle" /\ hpc'[r] = "returned") => ~g_failed[h_key'[r]]]_vars

\* a request is sending on the network after the last request with its key
\* has raised
C40_Witness ==
    \E r \in Reqs :
        /\ hpc[r] = "sending"
        /\ h_key[r] # 0
        /\ g_failed[h_key[r]]
        /\ h_net[r] > 0

====
